---- MODULE Spec2Model ----
(***************************************************************************)
(* Model of the commands of cli/flow/main.go.  The main part is `flow       *)
(* gitCheckout`: the resolution of a branch specification (bare name,      *)
(* remote/branch or a GitHub tree URL) to a remote, a branch name and a    *)
(* checkout mode.  youtubeToSound, commit, commitPush,                     *)
(* commitReviewAndPush, clone, cloneAndOpen and branchFromClipboard        *)
(* follow, each with a specification of its own over the same variables.   *)
(*                                                                         *)
(* Go strings are modelled as sequences of one-character strings (bytes    *)
(* outside printable ASCII are written "\xHH").  The standard-library      *)
(* functions the command calls (strings.*, net/url) are modelled by what   *)
(* they compute on such sequences.                                         *)
(***************************************************************************)
EXTENDS Integers, Sequences, FiniteSets, TLC

----------------------------------------------------------------------------
(* Characters *)

Ascii == <<" ", "!", "\"", "#", "$", "%", "&", "'", "(", ")", "*", "+", ",", "-", ".", "/", "0", "1", "2", "3", "4", "5", "6", "7", "8", "9", ":", ";", "<", "=", ">", "?", "@", "A", "B", "C", "D", "E", "F", "G", "H", "I", "J", "K", "L", "M", "N", "O", "P", "Q", "R", "S", "T", "U", "V", "W", "X", "Y", "Z", "[", "\\", "]", "^", "_", "\\x60", "a", "b", "c", "d", "e", "f", "g", "h", "i", "j", "k", "l", "m", "n", "o", "p", "q", "r", "s", "t", "u", "v", "w", "x", "y", "z", "{", "|", "}", "~">>

UpperHex == <<"0", "1", "2", "3", "4", "5", "6", "7", "8", "9", "A", "B", "C", "D", "E", "F">>

LowerHex == <<"0", "1", "2", "3", "4", "5", "6", "7", "8", "9", "a", "b", "c", "d", "e", "f">>

UpperLetters == <<"A", "B", "C", "D", "E", "F", "G", "H", "I", "J", "K", "L", "M", "N", "O", "P", "Q", "R", "S", "T", "U", "V", "W", "X", "Y", "Z">>

LowerLetters == <<"a", "b", "c", "d", "e", "f", "g", "h", "i", "j", "k", "l", "m", "n", "o", "p", "q", "r", "s", "t", "u", "v", "w", "x", "y", "z">>

Digits == {"0", "1", "2", "3", "4", "5", "6", "7", "8", "9"}

Range(s) == {s[i] : i \in 1..Len(s)}

\* The value of x, computed once and handed to F.
Bind(x, F(_)) == CHOOSE y \in {F(v) : v \in {x}} : TRUE

\* The character of byte value n.
Chr(n) ==
    IF n >= 32 /\ n <= 126 THEN Ascii[n - 31]
    ELSE IF n = 9 THEN "\t"
    ELSE IF n = 10 THEN "\n"
    ELSE IF n = 13 THEN "\r"
    ELSE "\\x" \o UpperHex[(n \div 16) + 1] \o UpperHex[(n % 16) + 1]

Bytes == [n \in 0..255 |-> Chr(n)]

\* The byte value of character c.
Ord(c) == CHOOSE n \in 0..255 : Bytes[n] = c

HexChars == Range(UpperHex) \cup Range(LowerHex)

UpperChars == Range(UpperLetters)

LetterChars == Range(UpperLetters) \cup Range(LowerLetters)

SpaceChars == {" ", "\t", "\n", "\r", Chr(11), Chr(12)}

CTLChars == {Chr(n) : n \in (0..31) \cup {127}}

\* ishex / unhex of net/url.
ishex(c) == c \in HexChars

unhex(c) ==
    IF c \in Range(UpperHex)
    THEN (CHOOSE i \in 1..16 : UpperHex[i] = c) - 1
    ELSE (CHOOSE i \in 1..16 : LowerHex[i] = c) - 1

IsLetter(c) == c \in LetterChars

IsAlnum(c) == IsLetter(c) \/ c \in Digits

\* ASCII control bytes (stringContainsCTLByte of net/url).
IsCTL(c) == c \in CTLChars

ToLowerChar(c) ==
    IF c \in UpperChars
    THEN LowerLetters[CHOOSE i \in 1..26 : UpperLetters[i] = c]
    ELSE c

----------------------------------------------------------------------------
(* unicode/utf8 and unicode *)

\* Characters below utf8.RuneSelf.
AsciiChars == {Chr(n) : n \in 0..127}

\* utf8: the number of bytes of the encoding that starts with byte b, 0 when
\* b starts none (0x80-0xC1 and 0xF5-0xFF).
RuneLen(b) ==
    IF b < 128 THEN 1
    ELSE IF b >= 194 /\ b <= 223 THEN 2
    ELSE IF b >= 224 /\ b <= 239 THEN 3
    ELSE IF b >= 240 /\ b <= 244 THEN 4
    ELSE 0

\* utf8.acceptRanges: the range of the second byte after leading byte b.
SecondLo(b) == IF b = 224 THEN 160 ELSE IF b = 240 THEN 144 ELSE 128

SecondHi(b) == IF b = 237 THEN 159 ELSE IF b = 244 THEN 143 ELSE 191

IsCont(b) == b >= 128 /\ b <= 191

\* utf8.DecodeRuneInString on the byte values bs from position i:
\* <<rune, width>>; an invalid or short encoding is U+FFFD of width 1.
DecodeRune(bs, i) ==
    IF RuneLen(bs[i]) = 1 THEN <<bs[i], 1>>
    ELSE IF RuneLen(bs[i]) = 0 \/ i + RuneLen(bs[i]) - 1 > Len(bs)
    THEN <<65533, 1>>
    ELSE IF bs[i + 1] < SecondLo(bs[i]) \/ bs[i + 1] > SecondHi(bs[i])
    THEN <<65533, 1>>
    ELSE IF RuneLen(bs[i]) = 2
    THEN <<(bs[i] % 32) * 64 + (bs[i + 1] % 64), 2>>
    ELSE IF ~IsCont(bs[i + 2]) THEN <<65533, 1>>
    ELSE IF RuneLen(bs[i]) = 3
    THEN <<(bs[i] % 16) * 4096 + (bs[i + 1] % 64) * 64 + (bs[i + 2] % 64), 3>>
    ELSE IF ~IsCont(bs[i + 3]) THEN <<65533, 1>>
    ELSE <<(bs[i] % 8) * 262144 + (bs[i + 1] % 64) * 4096
           + (bs[i + 2] % 64) * 64 + (bs[i + 3] % 64), 4>>

RECURSIVE DecodeFrom(_, _)
DecodeFrom(bs, i) ==
    IF i > Len(bs) THEN <<>>
    ELSE Bind(DecodeRune(bs, i),
              LAMBDA r : <<r[1]>> \o DecodeFrom(bs, i + r[2]))

\* The runes a `for _, r := range s` loop yields.
Runes(s) ==
    Bind([i \in 1..Len(s) |-> Ord(s[i])], LAMBDA bs : DecodeFrom(bs, 1))

\* utf8.AppendRune, as byte values.
EncodeRune(r) ==
    IF r < 128 THEN <<r>>
    ELSE IF r < 2048 THEN <<192 + (r \div 64), 128 + (r % 64)>>
    ELSE IF r < 65536
    THEN <<224 + (r \div 4096), 128 + ((r \div 64) % 64), 128 + (r % 64)>>
    ELSE <<240 + (r \div 262144), 128 + ((r \div 4096) % 64),
           128 + ((r \div 64) % 64), 128 + (r % 64)>>

RECURSIVE EncodeFrom(_, _)
EncodeFrom(rs, i) ==
    IF i > Len(rs) THEN <<>>
    ELSE [k \in 1..Len(EncodeRune(rs[i])) |-> Chr(EncodeRune(rs[i])[k])]
         \o EncodeFrom(rs, i + 1)

\* Case tables of package unicode, as rows <<lo, hi, stride, delta>>: every
\* rune lo, lo + stride, ... up to hi maps to itself plus delta.
\* LowerRanges is unicode.ToLower above U+007F.
LowerRanges == <<
    <<192, 214, 1, 32>>, <<216, 222, 1, 32>>, <<256, 302, 2, 1>>,
    <<304, 304, 1, -199>>, <<306, 310, 2, 1>>, <<313, 327, 2, 1>>,
    <<330, 374, 2, 1>>, <<376, 376, 1, -121>>, <<377, 381, 2, 1>>,
    <<385, 385, 1, 210>>, <<386, 388, 2, 1>>, <<390, 390, 1, 206>>,
    <<391, 391, 1, 1>>, <<393, 394, 1, 205>>, <<395, 395, 1, 1>>,
    <<398, 398, 1, 79>>, <<399, 399, 1, 202>>, <<400, 400, 1, 203>>,
    <<401, 401, 1, 1>>, <<403, 403, 1, 205>>, <<404, 404, 1, 207>>,
    <<406, 406, 1, 211>>, <<407, 407, 1, 209>>, <<408, 408, 1, 1>>,
    <<412, 412, 1, 211>>, <<413, 413, 1, 213>>, <<415, 415, 1, 214>>,
    <<416, 420, 2, 1>>, <<422, 422, 1, 218>>, <<423, 423, 1, 1>>,
    <<425, 425, 1, 218>>, <<428, 428, 1, 1>>, <<430, 430, 1, 218>>,
    <<431, 431, 1, 1>>, <<433, 434, 1, 217>>, <<435, 437, 2, 1>>,
    <<439, 439, 1, 219>>, <<440, 440, 1, 1>>, <<444, 444, 1, 1>>,
    <<452, 452, 1, 2>>, <<453, 453, 1, 1>>, <<455, 455, 1, 2>>,
    <<456, 456, 1, 1>>, <<458, 458, 1, 2>>, <<459, 475, 2, 1>>,
    <<478, 494, 2, 1>>, <<497, 497, 1, 2>>, <<498, 500, 2, 1>>,
    <<502, 502, 1, -97>>, <<503, 503, 1, -56>>, <<504, 542, 2, 1>>,
    <<544, 544, 1, -130>>, <<546, 562, 2, 1>>, <<570, 570, 1, 10795>>,
    <<571, 571, 1, 1>>, <<573, 573, 1, -163>>, <<574, 574, 1, 10792>>,
    <<577, 577, 1, 1>>, <<579, 579, 1, -195>>, <<580, 580, 1, 69>>,
    <<581, 581, 1, 71>>, <<582, 590, 2, 1>>, <<880, 882, 2, 1>>,
    <<886, 886, 1, 1>>, <<895, 895, 1, 116>>, <<902, 902, 1, 38>>,
    <<904, 906, 1, 37>>, <<908, 908, 1, 64>>, <<910, 911, 1, 63>>,
    <<913, 929, 1, 32>>, <<931, 939, 1, 32>>, <<975, 975, 1, 8>>,
    <<984, 1006, 2, 1>>, <<1012, 1012, 1, -60>>, <<1015, 1015, 1, 1>>,
    <<1017, 1017, 1, -7>>, <<1018, 1018, 1, 1>>, <<1021, 1023, 1, -130>>,
    <<1024, 1039, 1, 80>>, <<1040, 1071, 1, 32>>, <<1120, 1152, 2, 1>>,
    <<1162, 1214, 2, 1>>, <<1216, 1216, 1, 15>>, <<1217, 1229, 2, 1>>,
    <<1232, 1326, 2, 1>>, <<1329, 1366, 1, 48>>, <<4256, 4293, 1, 7264>>,
    <<4295, 4295, 1, 7264>>, <<4301, 4301, 1, 7264>>,
    <<5024, 5103, 1, 38864>>, <<5104, 5109, 1, 8>>, <<7312, 7354, 1, -3008>>,
    <<7357, 7359, 1, -3008>>, <<7680, 7828, 2, 1>>, <<7838, 7838, 1, -7615>>,
    <<7840, 7934, 2, 1>>, <<7944, 7951, 1, -8>>, <<7960, 7965, 1, -8>>,
    <<7976, 7983, 1, -8>>, <<7992, 7999, 1, -8>>, <<8008, 8013, 1, -8>>,
    <<8025, 8031, 2, -8>>, <<8040, 8047, 1, -8>>, <<8072, 8079, 1, -8>>,
    <<8088, 8095, 1, -8>>, <<8104, 8111, 1, -8>>, <<8120, 8121, 1, -8>>,
    <<8122, 8123, 1, -74>>, <<8124, 8124, 1, -9>>, <<8136, 8139, 1, -86>>,
    <<8140, 8140, 1, -9>>, <<8152, 8153, 1, -8>>, <<8154, 8155, 1, -100>>,
    <<8168, 8169, 1, -8>>, <<8170, 8171, 1, -112>>, <<8172, 8172, 1, -7>>,
    <<8184, 8185, 1, -128>>, <<8186, 8187, 1, -126>>, <<8188, 8188, 1, -9>>,
    <<8486, 8486, 1, -7517>>, <<8490, 8490, 1, -8383>>,
    <<8491, 8491, 1, -8262>>, <<8498, 8498, 1, 28>>, <<8544, 8559, 1, 16>>,
    <<8579, 8579, 1, 1>>, <<9398, 9423, 1, 26>>, <<11264, 11311, 1, 48>>,
    <<11360, 11360, 1, 1>>, <<11362, 11362, 1, -10743>>,
    <<11363, 11363, 1, -3814>>, <<11364, 11364, 1, -10727>>,
    <<11367, 11371, 2, 1>>, <<11373, 11373, 1, -10780>>,
    <<11374, 11374, 1, -10749>>, <<11375, 11375, 1, -10783>>,
    <<11376, 11376, 1, -10782>>, <<11378, 11378, 1, 1>>,
    <<11381, 11381, 1, 1>>, <<11390, 11391, 1, -10815>>,
    <<11392, 11490, 2, 1>>, <<11499, 11501, 2, 1>>, <<11506, 11506, 1, 1>>,
    <<42560, 42604, 2, 1>>, <<42624, 42650, 2, 1>>, <<42786, 42798, 2, 1>>,
    <<42802, 42862, 2, 1>>, <<42873, 42875, 2, 1>>,
    <<42877, 42877, 1, -35332>>, <<42878, 42886, 2, 1>>,
    <<42891, 42891, 1, 1>>, <<42893, 42893, 1, -42280>>,
    <<42896, 42898, 2, 1>>, <<42902, 42920, 2, 1>>,
    <<42922, 42922, 1, -42308>>, <<42923, 42923, 1, -42319>>,
    <<42924, 42924, 1, -42315>>, <<42925, 42925, 1, -42305>>,
    <<42926, 42926, 1, -42308>>, <<42928, 42928, 1, -42258>>,
    <<42929, 42929, 1, -42282>>, <<42930, 42930, 1, -42261>>,
    <<42931, 42931, 1, 928>>, <<42932, 42946, 2, 1>>,
    <<42948, 42948, 1, -48>>, <<42949, 42949, 1, -42307>>,
    <<42950, 42950, 1, -35384>>, <<42951, 42953, 2, 1>>,
    <<42960, 42960, 1, 1>>, <<42966, 42968, 2, 1>>, <<42997, 42997, 1, 1>>,
    <<65313, 65338, 1, 32>>, <<66560, 66599, 1, 40>>,
    <<66736, 66771, 1, 40>>, <<66928, 66938, 1, 39>>,
    <<66940, 66954, 1, 39>>, <<66956, 66962, 1, 39>>,
    <<66964, 66965, 1, 39>>, <<68736, 68786, 1, 64>>,
    <<71840, 71871, 1, 32>>, <<93760, 93791, 1, 32>>,
    <<125184, 125217, 1, 34>>
>>

\* FoldRanges maps every rune above U+007F to the representative of its
\* unicode.SimpleFold orbit (U+0130 and U+0131 are orbits of their own).
FoldRanges == <<
    <<181, 181, 1, 775>>, <<192, 214, 1, 32>>, <<216, 222, 1, 32>>,
    <<256, 302, 2, 1>>, <<306, 310, 2, 1>>, <<313, 327, 2, 1>>,
    <<330, 374, 2, 1>>, <<376, 376, 1, -121>>, <<377, 381, 2, 1>>,
    <<383, 383, 1, -268>>, <<385, 385, 1, 210>>, <<386, 388, 2, 1>>,
    <<390, 390, 1, 206>>, <<391, 391, 1, 1>>, <<393, 394, 1, 205>>,
    <<395, 395, 1, 1>>, <<398, 398, 1, 79>>, <<399, 399, 1, 202>>,
    <<400, 400, 1, 203>>, <<401, 401, 1, 1>>, <<403, 403, 1, 205>>,
    <<404, 404, 1, 207>>, <<406, 406, 1, 211>>, <<407, 407, 1, 209>>,
    <<408, 408, 1, 1>>, <<412, 412, 1, 211>>, <<413, 413, 1, 213>>,
    <<415, 415, 1, 214>>, <<416, 420, 2, 1>>, <<422, 422, 1, 218>>,
    <<423, 423, 1, 1>>, <<425, 425, 1, 218>>, <<428, 428, 1, 1>>,
    <<430, 430, 1, 218>>, <<431, 431, 1, 1>>, <<433, 434, 1, 217>>,
    <<435, 437, 2, 1>>, <<439, 439, 1, 219>>, <<440, 440, 1, 1>>,
    <<444, 444, 1, 1>>, <<452, 452, 1, 2>>, <<453, 453, 1, 1>>,
    <<455, 455, 1, 2>>, <<456, 456, 1, 1>>, <<458, 458, 1, 2>>,
    <<459, 475, 2, 1>>, <<478, 494, 2, 1>>, <<497, 497, 1, 2>>,
    <<498, 500, 2, 1>>, <<502, 502, 1, -97>>, <<503, 503, 1, -56>>,
    <<504, 542, 2, 1>>, <<544, 544, 1, -130>>, <<546, 562, 2, 1>>,
    <<570, 570, 1, 10795>>, <<571, 571, 1, 1>>, <<573, 573, 1, -163>>,
    <<574, 574, 1, 10792>>, <<577, 577, 1, 1>>, <<579, 579, 1, -195>>,
    <<580, 580, 1, 69>>, <<581, 581, 1, 71>>, <<582, 590, 2, 1>>,
    <<837, 837, 1, 116>>, <<880, 882, 2, 1>>, <<886, 886, 1, 1>>,
    <<895, 895, 1, 116>>, <<902, 902, 1, 38>>, <<904, 906, 1, 37>>,
    <<908, 908, 1, 64>>, <<910, 911, 1, 63>>, <<913, 929, 1, 32>>,
    <<931, 939, 1, 32>>, <<962, 962, 1, 1>>, <<975, 975, 1, 8>>,
    <<976, 976, 1, -30>>, <<977, 977, 1, -25>>, <<981, 981, 1, -15>>,
    <<982, 982, 1, -22>>, <<984, 1006, 2, 1>>, <<1008, 1008, 1, -54>>,
    <<1009, 1009, 1, -48>>, <<1012, 1012, 1, -60>>, <<1013, 1013, 1, -64>>,
    <<1015, 1015, 1, 1>>, <<1017, 1017, 1, -7>>, <<1018, 1018, 1, 1>>,
    <<1021, 1023, 1, -130>>, <<1024, 1039, 1, 80>>, <<1040, 1071, 1, 32>>,
    <<1120, 1152, 2, 1>>, <<1162, 1214, 2, 1>>, <<1216, 1216, 1, 15>>,
    <<1217, 1229, 2, 1>>, <<1232, 1326, 2, 1>>, <<1329, 1366, 1, 48>>,
    <<4256, 4293, 1, 7264>>, <<4295, 4295, 1, 7264>>,
    <<4301, 4301, 1, 7264>>, <<5112, 5117, 1, -8>>, <<7296, 7296, 1, -6222>>,
    <<7297, 7297, 1, -6221>>, <<7298, 7298, 1, -6212>>,
    <<7299, 7300, 1, -6210>>, <<7301, 7301, 1, -6211>>,
    <<7302, 7302, 1, -6204>>, <<7303, 7303, 1, -6180>>,
    <<7304, 7304, 1, 35267>>, <<7312, 7354, 1, -3008>>,
    <<7357, 7359, 1, -3008>>, <<7680, 7828, 2, 1>>, <<7835, 7835, 1, -58>>,
    <<7838, 7838, 1, -7615>>, <<7840, 7934, 2, 1>>, <<7944, 7951, 1, -8>>,
    <<7960, 7965, 1, -8>>, <<7976, 7983, 1, -8>>, <<7992, 7999, 1, -8>>,
    <<8008, 8013, 1, -8>>, <<8025, 8031, 2, -8>>, <<8040, 8047, 1, -8>>,
    <<8072, 8079, 1, -8>>, <<8088, 8095, 1, -8>>, <<8104, 8111, 1, -8>>,
    <<8120, 8121, 1, -8>>, <<8122, 8123, 1, -74>>, <<8124, 8124, 1, -9>>,
    <<8126, 8126, 1, -7173>>, <<8136, 8139, 1, -86>>, <<8140, 8140, 1, -9>>,
    <<8152, 8153, 1, -8>>, <<8154, 8155, 1, -100>>, <<8168, 8169, 1, -8>>,
    <<8170, 8171, 1, -112>>, <<8172, 8172, 1, -7>>, <<8184, 8185, 1, -128>>,
    <<8186, 8187, 1, -126>>, <<8188, 8188, 1, -9>>, <<8486, 8486, 1, -7517>>,
    <<8490, 8490, 1, -8383>>, <<8491, 8491, 1, -8262>>,
    <<8498, 8498, 1, 28>>, <<8544, 8559, 1, 16>>, <<8579, 8579, 1, 1>>,
    <<9398, 9423, 1, 26>>, <<11264, 11311, 1, 48>>, <<11360, 11360, 1, 1>>,
    <<11362, 11362, 1, -10743>>, <<11363, 11363, 1, -3814>>,
    <<11364, 11364, 1, -10727>>, <<11367, 11371, 2, 1>>,
    <<11373, 11373, 1, -10780>>, <<11374, 11374, 1, -10749>>,
    <<11375, 11375, 1, -10783>>, <<11376, 11376, 1, -10782>>,
    <<11378, 11378, 1, 1>>, <<11381, 11381, 1, 1>>,
    <<11390, 11391, 1, -10815>>, <<11392, 11490, 2, 1>>,
    <<11499, 11501, 2, 1>>, <<11506, 11506, 1, 1>>, <<42560, 42604, 2, 1>>,
    <<42624, 42650, 2, 1>>, <<42786, 42798, 2, 1>>, <<42802, 42862, 2, 1>>,
    <<42873, 42875, 2, 1>>, <<42877, 42877, 1, -35332>>,
    <<42878, 42886, 2, 1>>, <<42891, 42891, 1, 1>>,
    <<42893, 42893, 1, -42280>>, <<42896, 42898, 2, 1>>,
    <<42902, 42920, 2, 1>>, <<42922, 42922, 1, -42308>>,
    <<42923, 42923, 1, -42319>>, <<42924, 42924, 1, -42315>>,
    <<42925, 42925, 1, -42305>>, <<42926, 42926, 1, -42308>>,
    <<42928, 42928, 1, -42258>>, <<42929, 42929, 1, -42282>>,
    <<42930, 42930, 1, -42261>>, <<42931, 42931, 1, 928>>,
    <<42932, 42946, 2, 1>>, <<42948, 42948, 1, -48>>,
    <<42949, 42949, 1, -42307>>, <<42950, 42950, 1, -35384>>,
    <<42951, 42953, 2, 1>>, <<42960, 42960, 1, 1>>, <<42966, 42968, 2, 1>>,
    <<42997, 42997, 1, 1>>, <<43888, 43967, 1, -38864>>,
    <<65313, 65338, 1, 32>>, <<66560, 66599, 1, 40>>,
    <<66736, 66771, 1, 40>>, <<66928, 66938, 1, 39>>,
    <<66940, 66954, 1, 39>>, <<66956, 66962, 1, 39>>,
    <<66964, 66965, 1, 39>>, <<68736, 68786, 1, 64>>,
    <<71840, 71871, 1, 32>>, <<93760, 93791, 1, 32>>,
    <<125184, 125217, 1, 34>>
>>

\* The image of rune r under a case table.
RuneShift(tbl, r) ==
    IF \E k \in 1..Len(tbl) :
          r >= tbl[k][1] /\ r <= tbl[k][2] /\ (r - tbl[k][1]) % tbl[k][3] = 0
    THEN r + tbl[CHOOSE k \in 1..Len(tbl) :
                   r >= tbl[k][1] /\ r <= tbl[k][2]
                   /\ (r - tbl[k][1]) % tbl[k][3] = 0][4]
    ELSE r

\* unicode.ToLower.
ToLowerRune(r) ==
    IF r < 128 THEN (IF r >= 65 /\ r <= 90 THEN r + 32 ELSE r)
    ELSE RuneShift(LowerRanges, r)

\* The representative of the orbit unicode.SimpleFold walks from r.
FoldRune(r) ==
    IF r < 128 THEN (IF r >= 65 /\ r <= 90 THEN r + 32 ELSE r)
    ELSE RuneShift(FoldRanges, r)

\* unicode.IsSpace: the runes with the property White_Space.
SpaceRunes ==
    {9, 10, 11, 12, 13, 32, 133, 160, 5760, 8232, 8233, 8239, 8287, 12288}
    \cup (8192..8202)

\* The decimal digits (category Nd) above U+00FF, as rows <<first, last>>.
DigitRanges == <<
    <<1632, 1641>>, <<1776, 1785>>, <<1984, 1993>>, <<2406, 2415>>,
    <<2534, 2543>>, <<2662, 2671>>, <<2790, 2799>>, <<2918, 2927>>,
    <<3046, 3055>>, <<3174, 3183>>, <<3302, 3311>>, <<3430, 3439>>,
    <<3558, 3567>>, <<3664, 3673>>, <<3792, 3801>>, <<3872, 3881>>,
    <<4160, 4169>>, <<4240, 4249>>, <<6112, 6121>>, <<6160, 6169>>,
    <<6470, 6479>>, <<6608, 6617>>, <<6784, 6793>>, <<6800, 6809>>,
    <<6992, 7001>>, <<7088, 7097>>, <<7232, 7241>>, <<7248, 7257>>,
    <<42528, 42537>>, <<43216, 43225>>, <<43264, 43273>>, <<43472, 43481>>,
    <<43504, 43513>>, <<43600, 43609>>, <<44016, 44025>>, <<65296, 65305>>,
    <<66720, 66729>>, <<68912, 68921>>, <<69734, 69743>>, <<69872, 69881>>,
    <<69942, 69951>>, <<70096, 70105>>, <<70384, 70393>>, <<70736, 70745>>,
    <<70864, 70873>>, <<71248, 71257>>, <<71360, 71369>>, <<71472, 71481>>,
    <<71904, 71913>>, <<72016, 72025>>, <<72784, 72793>>, <<73040, 73049>>,
    <<73120, 73129>>, <<73552, 73561>>, <<92768, 92777>>, <<92864, 92873>>,
    <<93008, 93017>>, <<120782, 120831>>, <<123200, 123209>>,
    <<123632, 123641>>, <<124144, 124153>>, <<125264, 125273>>,
    <<130032, 130041>>
>>

\* unicode.IsDigit
IsDigit(r) ==
    IF r < 256 THEN r >= 48 /\ r <= 57
    ELSE \E k \in 1..Len(DigitRanges) : r >= DigitRanges[k][1] /\ r <= DigitRanges[k][2]

----------------------------------------------------------------------------
(* package strings *)

\* strings.ToLower: bytewise on ASCII input; otherwise strings.Map of
\* unicode.ToLower over the runes, which also rewrites every invalid byte
\* as U+FFFD.
ToLower(s) ==
    IF \A i \in 1..Len(s) : s[i] \in AsciiChars
    THEN [i \in 1..Len(s) |-> ToLowerChar(s[i])]
    ELSE Bind(Runes(s), LAMBDA rs :
         Bind([i \in 1..Len(rs) |-> ToLowerRune(rs[i])], LAMBDA ls :
         EncodeFrom(ls, 1)))

\* strings.EqualFold: rune by rune, two runes being equal when they lie on
\* the same SimpleFold orbit.
EqualFold(s, t) ==
    IF \A i \in 1..Len(s) : s[i] \in AsciiChars
    THEN IF \A i \in 1..Len(t) : t[i] \in AsciiChars
         THEN Len(s) = Len(t)
              /\ \A i \in 1..Len(s) : ToLowerChar(s[i]) = ToLowerChar(t[i])
         ELSE Bind(Runes(t), LAMBDA b :
              Len(s) = Len(b)
              /\ \A i \in 1..Len(s) : FoldRune(Ord(s[i])) = FoldRune(b[i]))
    ELSE Bind(Runes(s), LAMBDA a :
         Bind(Runes(t), LAMBDA b :
         Len(a) = Len(b)
         /\ \A i \in 1..Len(a) : FoldRune(a[i]) = FoldRune(b[i])))

HasPrefix(s, p) == Len(s) >= Len(p) /\ SubSeq(s, 1, Len(p)) = p

\* strings.Index for a one-character separator, 0-based, -1 when absent.
Index(s, c) ==
    IF \E i \in 1..Len(s) : s[i] = c
    THEN (CHOOSE i \in 1..Len(s) : s[i] = c /\ ~\E j \in 1..(i - 1) : s[j] = c) - 1
    ELSE -1

LastIndex(s, c) ==
    IF \E i \in 1..Len(s) : s[i] = c
    THEN (CHOOSE i \in 1..Len(s) : s[i] = c /\ ~\E j \in (i + 1)..Len(s) : s[j] = c) - 1
    ELSE -1

\* s[from:] with a 0-based offset.
SliceFrom(s, from) == SubSeq(s, from + 1, Len(s))

\* s[:to] with a 0-based exclusive end.
SliceTo(s, to) == SubSeq(s, 1, to)

\* strings.Cut(s, sep) for a one-character separator: [before, after, found].
Cut(s, sep) ==
    IF sep \notin Range(s)
    THEN [before |-> s, after |-> <<>>, found |-> FALSE]
    ELSE Bind(Index(s, sep),
              LAMBDA i : [before |-> SliceTo(s, i), after |-> SliceFrom(s, i + 1),
                          found |-> TRUE])

\* strings.Trim(s, cutset): s without its leading and trailing cutset characters.
Trim(s, cutset) ==
    IF \A i \in 1..Len(s) : s[i] \in cutset THEN <<>>
    ELSE SubSeq(s,
                CHOOSE i \in 1..Len(s) : s[i] \notin cutset /\ \A j \in 1..(i - 1) : s[j] \in cutset,
                CHOOSE i \in 1..Len(s) : s[i] \notin cutset /\ \A j \in (i + 1)..Len(s) : s[j] \in cutset)

\* The UTF-8 encodings of the runes of unicode.IsSpace.
SpaceWords == {EncodeFrom(<<r>>, 1) : r \in SpaceRunes}

\* strings.TrimLeftFunc(s, unicode.IsSpace)
RECURSIVE TrimLeftSpace(_)
TrimLeftSpace(s) ==
    IF \E w \in SpaceWords : HasPrefix(s, w)
    THEN Bind(SliceFrom(s, Len(CHOOSE w \in SpaceWords : HasPrefix(s, w))),
              LAMBDA rest : TrimLeftSpace(rest))
    ELSE s

\* strings.TrimRightFunc(s, unicode.IsSpace)
RECURSIVE TrimRightSpace(_)
TrimRightSpace(s) ==
    IF \E w \in SpaceWords :
          Len(s) >= Len(w) /\ SubSeq(s, Len(s) - Len(w) + 1, Len(s)) = w
    THEN Bind(SliceTo(s, Len(s) - Len(CHOOSE w \in SpaceWords :
                  Len(s) >= Len(w) /\ SubSeq(s, Len(s) - Len(w) + 1, Len(s)) = w)),
              LAMBDA rest : TrimRightSpace(rest))
    ELSE s

\* strings.TrimSpace(s): bytewise on ASCII text, by runes otherwise.
TrimSpace(s) ==
    IF \A i \in 1..Len(s) : s[i] \in AsciiChars
    THEN Trim(s, SpaceChars)
    ELSE Bind(TrimLeftSpace(s), LAMBDA l : TrimRightSpace(l))

\* strings.Split(s, sep) for a one-character separator: always at least one part.
RECURSIVE Split(_, _)
Split(s, sep) ==
    Bind(Cut(s, sep),
         LAMBDA c : IF c.found THEN <<c.before>> \o Split(c.after, sep) ELSE <<s>>)

\* strings.Join(parts[:n], sep) for a one-character separator.
RECURSIVE JoinFirst(_, _, _)
JoinFirst(parts, n, sep) ==
    IF n = 0 THEN <<>>
    ELSE IF n = 1 THEN parts[1]
    ELSE JoinFirst(parts, n - 1, sep) \o <<sep>> \o parts[n]

\* strings.Join(parts, sep)
Join(parts, sep) == JoinFirst(parts, Len(parts), sep)

----------------------------------------------------------------------------
(* package net/url *)

\* A "%" that is not followed by two hex digits (EscapeError of unescape).
BadEscape(s) ==
    \E i \in 1..Len(s) :
        s[i] = "%" /\ ~(i + 2 <= Len(s) /\ ishex(s[i + 1]) /\ ishex(s[i + 2]))

\* The decoding loop of unescape; plus is TRUE in query-component mode.
RECURSIVE UnescapeFrom(_, _, _)
UnescapeFrom(s, i, plus) ==
    IF i > Len(s) THEN <<>>
    ELSE IF s[i] = "%"
         THEN <<Chr(unhex(s[i + 1]) * 16 + unhex(s[i + 2]))>> \o UnescapeFrom(s, i + 3, plus)
    ELSE IF s[i] = "+" /\ plus
         THEN <<" ">> \o UnescapeFrom(s, i + 1, plus)
    ELSE <<s[i]>> \o UnescapeFrom(s, i + 1, plus)

\* url.PathUnescape: [ok, val].
PathUnescape(s) ==
    IF BadEscape(s) THEN [ok |-> FALSE, val |-> <<>>]
    ELSE [ok |-> TRUE, val |-> UnescapeFrom(s, 1, FALSE)]

\* url.QueryUnescape: [ok, val].
QueryUnescape(s) ==
    IF BadEscape(s) THEN [ok |-> FALSE, val |-> <<>>]
    ELSE [ok |-> TRUE, val |-> UnescapeFrom(s, 1, TRUE)]

PathSafeChars == {"-", "_", ".", "~", "$", "&", "+", ",", "/", ":", ";", "=", "@"}

\* shouldEscape(c, encodePath)
ShouldEscapePath(c) == ~(IsAlnum(c) \/ c \in PathSafeChars)

\* "%XX" for the byte n.
PercentByte(n) == <<"%", UpperHex[(n \div 16) + 1], UpperHex[(n % 16) + 1]>>

\* escape(s, encodePath), from index i on.
RECURSIVE EscapePathFrom(_, _)
EscapePathFrom(s, i) ==
    IF i > Len(s) THEN <<>>
    ELSE (IF ShouldEscapePath(s[i]) THEN PercentByte(Ord(s[i])) ELSE <<s[i]>>)
         \o EscapePathFrom(s, i + 1)

EscapePath(s) == EscapePathFrom(s, 1)

PathEncodedChars == {"!", "$", "&", "'", "(", ")", "*", "+", ",", ";", "=", ":", "@", "[", "]", "%"}

\* validEncoded(s, encodePath)
ValidEncodedPath(s) ==
    \A i \in 1..Len(s) : s[i] \in PathEncodedChars \/ ~ShouldEscapePath(s[i])

HostSafeChars == {"-", "_", ".", "~", "!", "$", "&", "'", "(", ")", "*", "+", ",",
                  ";", "=", ":", "[", "]", "<", ">", "\""}

\* shouldEscape(c, encodeHost)
ShouldEscapeHost(c) == ~(IsAlnum(c) \/ c \in HostSafeChars)

\* unescape(host, encodeHost) rejects "%" escapes of ASCII bytes other than
\* %25 and any ASCII byte that would need escaping.
HostUnescapeFails(h) ==
    \/ BadEscape(h)
    \/ \E i \in 1..Len(h) :
           /\ h[i] = "%"
           /\ unhex(h[i + 1]) < 8
           /\ SubSeq(h, i, i + 2) # <<"%", "2", "5">>
    \/ \E i \in 1..Len(h) :
           /\ h[i] # "%"
           /\ ShouldEscapeHost(h[i])
           /\ Ord(h[i]) < 128

\* validOptionalPort
ValidOptionalPort(p) ==
    \/ p = <<>>
    \/ /\ Head(p) = ":"
       /\ \A i \in 2..Len(p) : p[i] \in Digits

UserinfoChars == {"-", ".", "_", ":", "~", "!", "$", "&", "'", "(", ")", "*",
                  "+", ",", ";", "=", "%", "@"}

\* validUserinfo
ValidUserinfo(s) == \A i \in 1..Len(s) : IsAlnum(s[i]) \/ s[i] \in UserinfoChars

\* unescape(zone, encodeZone): as for a host, but a "%" escape is also
\* accepted when it decodes to a space or to a byte that needs no escaping in
\* a host.
ZoneUnescapeFails(z) ==
    \/ BadEscape(z)
    \/ \E i \in 1..Len(z) :
           /\ z[i] = "%"
           /\ SubSeq(z, i, i + 2) # <<"%", "2", "5">>
           /\ Chr(16 * unhex(z[i + 1]) + unhex(z[i + 2])) # " "
           /\ ShouldEscapeHost(Chr(16 * unhex(z[i + 1]) + unhex(z[i + 2])))
    \/ \E i \in 1..Len(z) :
           /\ z[i] # "%"
           /\ ShouldEscapeHost(z[i])
           /\ Ord(z[i]) < 128

\* strings.Index(s, "%25"), 0-based, -1 when absent.
IndexZone(s) ==
    IF \E i \in 1..(Len(s) - 2) : SubSeq(s, i, i + 2) = <<"%", "2", "5">>
    THEN (CHOOSE i \in 1..(Len(s) - 2) :
              /\ SubSeq(s, i, i + 2) = <<"%", "2", "5">>
              /\ ~\E j \in 1..(i - 1) : SubSeq(s, j, j + 2) = <<"%", "2", "5">>) - 1
    ELSE -1

HostError == [ok |-> FALSE, host |-> <<>>]

\* The end of parseHost: unescape(host, encodeHost).
UnescapeHost(host) ==
    IF HostUnescapeFails(host) THEN HostError
    ELSE [ok |-> TRUE, host |-> UnescapeFrom(host, 1, FALSE)]

\* The IP-literal arm of parseHost, for a host that starts with "[": the
\* literal ends at the last "]", an optional port follows, and a zone that
\* starts at the first "%25" before the "]" is unescaped on its own.
ParseIPLiteral(host) ==
    IF "]" \notin Range(host) THEN HostError
    ELSE Bind(LastIndex(host, "]"),
              LAMBDA i :
                  IF ~ValidOptionalPort(SliceFrom(host, i + 1)) THEN HostError
                  ELSE Bind(IndexZone(SliceTo(host, i)),
                            LAMBDA zone :
                                IF zone < 0 THEN UnescapeHost(host)
                                ELSE IF \/ HostUnescapeFails(SliceTo(host, zone))
                                        \/ ZoneUnescapeFails(SubSeq(host, zone + 1, i))
                                        \/ HostUnescapeFails(SliceFrom(host, i))
                                THEN HostError
                                ELSE [ok |-> TRUE,
                                      host |-> UnescapeFrom(SliceTo(host, zone), 1, FALSE)
                                               \o UnescapeFrom(SubSeq(host, zone + 1, i), 1, FALSE)
                                               \o UnescapeFrom(SliceFrom(host, i), 1, FALSE)]))

\* parseHost: [ok, host].
ParseHost(host) ==
    IF HasPrefix(host, <<"[">>) THEN ParseIPLiteral(host)
    ELSE IF ":" \in Range(host) /\ ~ValidOptionalPort(SliceFrom(host, LastIndex(host, ":")))
    THEN HostError
    ELSE UnescapeHost(host)

\* parseAuthority: [ok, host].
ParseAuthority(authority) ==
    IF "@" \notin Range(authority) THEN ParseHost(authority)
    ELSE Bind(LastIndex(authority, "@"),
              LAMBDA at :
                  IF ~ValidUserinfo(SliceTo(authority, at)) \/ BadEscape(SliceTo(authority, at))
                  THEN [ok |-> FALSE, host |-> <<>>]
                  ELSE ParseHost(SliceFrom(authority, at + 1)))

URLError == [ok |-> FALSE, Host |-> <<>>, Path |-> <<>>, RawPath |-> <<>>, RawQuery |-> <<>>]

\* setPath and the result of url.Parse, for the host h, the raw path p and the
\* raw query q.
SetPath(h, p, q) ==
    IF BadEscape(p) THEN URLError
    ELSE Bind(UnescapeFrom(p, 1, FALSE),
              LAMBDA path :
                  [ok |-> TRUE, Host |-> h, Path |-> path,
                   RawPath |-> IF EscapePath(path) = p THEN <<>> ELSE p,
                   RawQuery |-> q])

\* parse(u): u is the input without its fragment.  The scheme ends at the
\* first ":", the query starts at the first "?", the authority follows "//"
\* and ends at the next "/".
ParseNoFragment(u) ==
    IF \E i \in 1..Len(u) : IsCTL(u[i]) THEN URLError
    ELSE Bind(Cut(SliceFrom(u, Index(u, ":") + 1), "?"),
              LAMBDA q :
                  IF ~HasPrefix(q.before, <<"/", "/">>) THEN URLError
                  ELSE Bind(Cut(SliceFrom(q.before, 2), "/"),
                            LAMBDA a :
                                Bind(ParseAuthority(a.before),
                                     LAMBDA h :
                                         IF ~h.ok THEN URLError
                                         ELSE SetPath(h.host,
                                                      IF a.found THEN <<"/">> \o a.after ELSE <<>>,
                                                      q.after))))

\* url.Parse for an input that starts with "http://" or "https://" (the only
\* inputs runGitCheckout hands to parseGitHubTreeURL): the fragment is cut at
\* the first "#" and must unescape.
ParseURL(raw) ==
    Bind(Cut(raw, "#"),
         LAMBDA f :
             Bind(ParseNoFragment(f.before),
                  LAMBDA u : IF u.ok /\ BadEscape(f.after) THEN URLError ELSE u))

\* (*URL).EscapedPath
EscapedPath(u) ==
    IF /\ u.RawPath # <<>>
       /\ ValidEncodedPath(u.RawPath)
       /\ UnescapeFrom(u.RawPath, 1, FALSE) = u.Path
    THEN u.RawPath
    ELSE IF u.Path = <<"*">> THEN <<"*">>
    ELSE EscapePath(u.Path)

\* One key=value pair of url.ParseQuery: [ok, key, val]; a pair with ";", an
\* empty key or a bad escape is dropped.
ParsePair(pair) ==
    Bind(Cut(pair, "="),
         LAMBDA kv :
             IF pair = <<>> \/ ";" \in Range(pair) \/ BadEscape(kv.before) \/ BadEscape(kv.after)
             THEN [ok |-> FALSE, key |-> <<>>, val |-> <<>>]
             ELSE [ok |-> TRUE, key |-> UnescapeFrom(kv.before, 1, TRUE),
                   val |-> UnescapeFrom(kv.after, 1, TRUE)])

\* url.Values.Get(key) over the pairs from index i on: the first value stored
\* under key, or "".
RECURSIVE FirstValue(_, _, _)
FirstValue(pairs, i, key) ==
    IF i > Len(pairs) THEN <<>>
    ELSE Bind(ParsePair(pairs[i]),
              LAMBDA kv : IF kv.ok /\ kv.key = key THEN kv.val
                          ELSE FirstValue(pairs, i + 1, key))

\* u.Query().Get(key)
QueryGet(u, key) ==
    Bind(Split(u.RawQuery, "&"), LAMBDA pairs : FirstValue(pairs, 1, key))

----------------------------------------------------------------------------
(* String constants of the program *)

S_http == <<"h", "t", "t", "p", ":", "/", "/">>

S_https == <<"h", "t", "t", "p", "s", ":", "/", "/">>

S_github == <<"g", "i", "t", "h", "u", "b", ".", "c", "o", "m">>

S_wwwgithub == <<"w", "w", "w", ".">> \o S_github

S_tree == <<"t", "r", "e", "e">>

S_ref == <<"r", "e", "f">>

S_origin == <<"o", "r", "i", "g", "i", "n">>

----------------------------------------------------------------------------
(* parseGitHubTreeURL *)

\* Variant of addCandidate without the seen map.
addCandidate_noSeen(candidates, candidate) ==
    IF candidate = <<>> THEN candidates ELSE Append(candidates, candidate)

\* Variant of addCandidate that keeps an empty candidate.
addCandidate_keepsEmpty(candidates, candidate) ==
    IF candidate \in Range(candidates) THEN candidates
    ELSE Append(candidates, candidate)

\* The addCandidate closure: empty and already seen candidates are ignored.
addCandidate(candidates, candidate) ==
    IF candidate = <<>> THEN candidates
    ELSE IF candidate \in Range(candidates) THEN candidates
    ELSE Append(candidates, candidate)

\* The ref query parameter as the code offers it to addCandidate: the value
\* u.Query().Get("ref") passed through url.PathUnescape; nothing when the value
\* is empty or PathUnescape fails.
refOffers(u) ==
    Bind(QueryGet(u, S_ref),
         LAMBDA ref : IF ref # <<>> /\ ~BadEscape(ref)
                      THEN <<PathUnescape(ref).val>>
                      ELSE <<>>)

\* Variant of pathOffer that joins all of branchParts instead of branchParts[:i].
pathOffer_fullOnly(branchParts, i) ==
    Bind(PathUnescape(Join(branchParts, "/")),
         LAMBDA decoded : IF decoded.ok THEN <<decoded.val>> ELSE <<>>)

\* The decoded join of the first i parts as the loop offers it to
\* addCandidate; nothing when the join does not decode.
pathOffer(branchParts, i) ==
    Bind(PathUnescape(Join(SubSeq(branchParts, 1, i), "/")),
         LAMBDA decoded : IF decoded.ok THEN <<decoded.val>> ELSE <<>>)

\* The loop over the prefixes of branchParts, from prefix length i on.
RECURSIVE pathOffers(_, _)
pathOffers(branchParts, i) ==
    IF i > Len(branchParts) THEN <<>>
    ELSE pathOffer(branchParts, i) \o pathOffers(branchParts, i + 1)

\* addCandidate applied to the offers from index i on.
RECURSIVE addAll(_, _, _)
addAll(candidates, offers, i) ==
    IF i > Len(offers) THEN candidates
    ELSE Bind(addCandidate(candidates, offers[i]),
              LAMBDA added : addAll(added, offers, i + 1))

\* strings.Split(strings.Trim(u.EscapedPath(), "/"), "/")
pathParts(u) == Bind(Trim(EscapedPath(u), {"/"}), LAMBDA trimmed : Split(trimmed, "/"))

\* The candidates built from the ref parameter and the branch parts.
buildCandidates(u, branchParts) ==
    Bind(refOffers(u) \o pathOffers(branchParts, 1),
         LAMBDA offers : addAll(<<>>, offers, 1))

\* Variant of treeCandidates that compares the third part with "tree" exactly.
treeCandidates_exactTree(u, parts) ==
    IF Len(parts) < 4 \/ parts[3] # S_tree
    THEN [err |-> "UnsupportedPath", candidates |-> <<>>]
    ELSE Bind(buildCandidates(u, SubSeq(parts, 4, Len(parts))),
              LAMBDA candidates : [err |-> "nil", candidates |-> candidates])

\* Variant of treeCandidates that asks for three parts only and returns the
\* candidates it has without looking at their number.
treeCandidates_noGuards(u, parts) ==
    IF Len(parts) < 3 \/ ~EqualFold(parts[3], S_tree)
    THEN [err |-> "UnsupportedPath", candidates |-> <<>>]
    ELSE Bind(buildCandidates(u, SubSeq(parts, 4, Len(parts))),
              LAMBDA candidates : [err |-> "nil", candidates |-> candidates])

\* The part of parseGitHubTreeURL after the host check.
treeCandidates(u, parts) ==
    IF Len(parts) < 4 \/ ~EqualFold(parts[3], S_tree)
    THEN [err |-> "UnsupportedPath", candidates |-> <<>>]
    ELSE IF Len(SubSeq(parts, 4, Len(parts))) = 0
    THEN [err |-> "BranchMissing", candidates |-> <<>>]
    ELSE Bind(buildCandidates(u, SubSeq(parts, 4, Len(parts))),
              LAMBDA candidates :
                  IF Len(candidates) = 0
                  THEN [err |-> "NoBranchCandidates", candidates |-> <<>>]
                  ELSE [err |-> "nil", candidates |-> candidates])

\* parseGitHubTreeURL(raw): [err, candidates]; err = "nil" on success.
parseGitHubTreeURL(raw) ==
    Bind(ParseURL(raw),
         LAMBDA u :
             IF ~u.ok
             THEN [err |-> "InvalidURL", candidates |-> <<>>]
             ELSE IF ToLower(u.Host) # S_github /\ ToLower(u.Host) # S_wwwgithub
             THEN [err |-> "UnsupportedHost", candidates |-> <<>>]
             ELSE Bind(pathParts(u), LAMBDA parts : treeCandidates(u, parts)))

----------------------------------------------------------------------------
(* listGitRemotes, selectGitRemote *)

\* Standard output of `git remote`: one configured name per line.
RECURSIVE gitRemoteStdout(_, _)
gitRemoteStdout(names, i) ==
    IF i > Len(names) THEN <<>>
    ELSE names[i] \o <<"\n">> \o gitRemoteStdout(names, i + 1)

\* The loop of listGitRemotes over the lines from index i on.
RECURSIVE nonBlankLines(_, _)
nonBlankLines(lines, i) ==
    IF i > Len(lines) THEN <<>>
    ELSE Bind(TrimSpace(lines[i]),
              LAMBDA name : (IF name # <<>> THEN <<name>> ELSE <<>>)
                            \o nonBlankLines(lines, i + 1))

\* Variant of listGitRemotes that returns an empty list without an error.
listGitRemotes_noEmptyCheck(out) ==
    [err |-> "nil", remotes |-> nonBlankLines(Split(TrimSpace(out), "\n"), 1)]

\* listGitRemotes on the output out of a successful `git remote`: [err, remotes].
listGitRemotes(out) ==
    Bind(TrimSpace(out),
         LAMBDA trimmed :
             IF trimmed = <<>>
             THEN [err |-> "NoRemotesConfigured", remotes |-> <<>>]
             ELSE Bind(nonBlankLines(Split(trimmed, "\n"), 1),
                       LAMBDA rs :
                           IF Len(rs) = 0
                           THEN [err |-> "NoRemotesConfigured", remotes |-> <<>>]
                           ELSE [err |-> "nil", remotes |-> rs]))

\* Variant of selectGitRemote without the preference for origin.
selectGitRemote_firstListed(rs, preferred) ==
    IF Len(rs) = 0
    THEN [err |-> "NoRemotesConfigured", remote |-> <<>>]
    ELSE IF preferred # <<>>
    THEN IF \E i \in 1..Len(rs) : rs[i] = preferred
         THEN [err |-> "nil", remote |-> preferred]
         ELSE [err |-> "RemoteNotFound", remote |-> <<>>]
    ELSE [err |-> "nil", remote |-> rs[1]]

\* selectGitRemote(remotes, preferred): [err, remote].
selectGitRemote(rs, preferred) ==
    IF Len(rs) = 0
    THEN [err |-> "NoRemotesConfigured", remote |-> <<>>]
    ELSE IF preferred # <<>>
    THEN IF \E i \in 1..Len(rs) : rs[i] = preferred
         THEN [err |-> "nil", remote |-> preferred]
         ELSE [err |-> "RemoteNotFound", remote |-> <<>>]
    ELSE IF \E i \in 1..Len(rs) : rs[i] = S_origin
    THEN [err |-> "nil", remote |-> S_origin]
    ELSE [err |-> "nil", remote |-> rs[1]]

\* Variant of splitAt that pins the prefix without looking it up.
splitAt_noMembership(branchInput, rs, idx) ==
    IF idx > 0 /\ SliceFrom(branchInput, idx + 1) # <<>>
    THEN [branchName |-> SliceFrom(branchInput, idx + 1),
          preferredRemote |-> SliceTo(branchInput, idx),
          branchCandidates |-> <<SliceFrom(branchInput, idx + 1)>>]
    ELSE [branchName |-> branchInput, preferredRemote |-> <<>>,
          branchCandidates |-> <<branchInput>>]

\* Variant of splitAt that pins the remote also when nothing follows the "/".
splitAt_noRemainderCheck(branchInput, rs, idx) ==
    IF idx > 0 /\ \E i \in 1..Len(rs) : rs[i] = SliceTo(branchInput, idx)
    THEN [branchName |-> SliceFrom(branchInput, idx + 1),
          preferredRemote |-> SliceTo(branchInput, idx),
          branchCandidates |-> <<SliceFrom(branchInput, idx + 1)>>]
    ELSE [branchName |-> branchInput, preferredRemote |-> <<>>,
          branchCandidates |-> <<branchInput>>]

\* The direct (non-URL) branch of runGitCheckout for an input whose first "/"
\* is at the 0-based index idx (-1: none): the prefix is looked up among the
\* listed remotes.  [branchName, preferredRemote, branchCandidates]
splitAt(branchInput, rs, idx) ==
    IF /\ idx > 0
       /\ SliceFrom(branchInput, idx + 1) # <<>>
       /\ \E i \in 1..Len(rs) : rs[i] = SliceTo(branchInput, idx)
    THEN [branchName |-> SliceFrom(branchInput, idx + 1),
          preferredRemote |-> SliceTo(branchInput, idx),
          branchCandidates |-> <<SliceFrom(branchInput, idx + 1)>>]
    ELSE [branchName |-> branchInput, preferredRemote |-> <<>>,
          branchCandidates |-> <<branchInput>>]

\* Variant of directSpec that splits at the last "/".
directSpec_lastSlash(branchInput, rs) ==
    Bind(LastIndex(branchInput, "/"), LAMBDA idx : splitAt(branchInput, rs, idx))

\* strings.Index(branchInput, "/") and the split at that index.
directSpec(branchInput, rs) ==
    Bind(Index(branchInput, "/"), LAMBDA idx : splitAt(branchInput, rs, idx))

----------------------------------------------------------------------------
(* Inputs of the model *)

\* Longest tail, in tokens, appended to an input head.
MaxTokens == 2

\* Largest number of configured remotes.
MaxRemotes == 2

H_tree == S_https \o S_github \o <<"/", "o", "/", "r", "/">> \o S_tree \o <<"/">>

H_treeSeg == H_tree \o <<"a", "/">>

H_treeRef == H_tree \o <<"a", "/", "b", "?">> \o S_ref \o <<"=">>

H_treeUpper ==
    S_http \o <<"W", "W", "W", ".", "G", "i", "t", "H", "u", "b", ".", "c", "o", "m">>
    \o <<"/", "o", "/", "r", "/", "T", "R", "E", "E", "/">>

H_gitlab ==
    S_https \o <<"g", "i", "t", "l", "a", "b", ".", "c", "o", "m">>
    \o <<"/", "o", "/", "r", "/">> \o S_tree \o <<"/">>

\* The host g%C4%B0thub.com: "g", U+0130 (capital I with dot above), "thub.com".
H_dotted ==
    S_https \o <<"g", "%", "C", "4", "%", "B", "0", "t", "h", "u", "b", ".", "c", "o", "m">>
    \o <<"/", "o", "/", "r", "/">> \o S_tree \o <<"/">>

\* Tree URLs whose host is an IP literal: closed, with a zone, and without the
\* closing bracket.
H_literal == S_https \o <<"[", ":", ":", "1", "]">> \o <<"/", "o", "/", "r", "/">> \o S_tree \o <<"/">>

H_zone == S_https \o <<"[", "f", "e", "8", "0", ":", ":", "1", "%", "2", "5", "e", "n", "0", "]">> \o <<"/", "o", "/", "r", "/">> \o S_tree \o <<"/">>

H_open == S_https \o <<"[", "g", "i", "t", "h", "u", "b", ".", "c", "o", "m">> \o <<"/", "o", "/", "r", "/">> \o S_tree \o <<"/">>

H_host == S_https \o S_github

H_repo == S_https \o S_github \o <<"/", "o", "/", "r", "/">>

S_up == <<"u", "p">>

S_fk == <<"f", "k">>

H_origin == S_origin \o <<"/">>

H_up == S_up \o <<"/">>

Heads == {<<>>, H_origin, H_up, H_tree, H_treeSeg, H_treeRef, H_treeUpper, H_gitlab, H_host, H_repo}

Tokens == {<<"a">>, <<"b">>, <<"/">>, <<"%", "2", "5">>, <<"%">>, <<" ">>, <<"#">>, <<"?">>}

RECURSIVE TokenStrings(_)
TokenStrings(n) ==
    IF n = 0 THEN {<<>>}
    ELSE LET S == TokenStrings(n - 1)
         IN  S \cup {s \o t : s \in S, t \in Tokens}

\* The command-line arguments tried: a head followed by at most MaxTokens
\* tokens, and the tree URLs on g%C4%B0thub.com and on the IP literals followed
\* by at most one token.
Inputs ==
    {h \o t : h \in Heads, t \in TokenStrings(MaxTokens)}
    \cup {h \o t : h \in {H_dotted, H_literal, H_zone, H_open}, t \in TokenStrings(1)}

RemoteNames == {S_origin, S_up, S_fk}

RECURSIVE RemoteLists(_)
RemoteLists(n) ==
    IF n = 0 THEN {<<>>}
    ELSE LET S == RemoteLists(n - 1)
         IN  S \cup {Append(l, r) : l \in S, r \in RemoteNames}

\* `git remote add` refuses a name that is already configured.
NoRepeat(l) == \A i, j \in 1..Len(l) : l[i] = l[j] => i = j

----------------------------------------------------------------------------
(* runGitCheckout *)

VARIABLES
    args,                  \* ctx.Args(): the operands of `flow gitCheckout`
    configured,            \* the repository's remotes, in `git remote` order
    head,                  \* the branch checked out in the working tree
    pc,                    \* position in runGitCheckout
    branchInput,
    remotes,
    branchName,
    preferredRemote,
    branchCandidates,
    branchDerivedFromURL,
    remote,
    probeIdx,              \* index of the candidate the probing loop is at
    mode,                  \* checkout mode decided after the fetch
    calls,                 \* the git commands run so far, with their outcome
    err,                   \* the returned error; "" while running, "nil" on success
    errArgs                \* the names formatted into the returned error's message

S_HEAD == <<"m">>

\* The state of the other commands of flow.
VARIABLES
    cookiesBrowserEnv,     \* os.Getenv("FLOW_YOUTUBE_COOKIES_BROWSER")
    videoURL,              \* runYoutubeToSound: the URL handed to yt-dlp
    command,               \* the command run, where one specification covers two
    payloadMessage,        \* commitPayload.message
    payloadParagraphs,     \* commitPayload.paragraphs
    current,               \* promptCommitConfirmation: the message under review
    choice,                \* promptCommitConfirmation: the key read last
    edited,                \* promptCommitConfirmation: what the editor left last
    input,                 \* runClone, runCloneAndOpen: the repository named
    cloneInfo,             \* cloneRepository: owner, repo, cloneURL, targetDir
    rawClipboard,          \* runBranchFromClipboard: the text of the clipboard
    clipboardBranch        \* runBranchFromClipboard: branchName

commitVars == <<payloadMessage, payloadParagraphs, current, choice, edited>>

CommitIdle ==
    /\ payloadMessage = <<>>
    /\ payloadParagraphs = <<>>
    /\ current = <<>>
    /\ choice = ""
    /\ edited = <<>>

cloneVars == <<input, cloneInfo>>

NoCloneInfo == [owner |-> <<>>, repo |-> <<>>, cloneURL |-> <<>>, targetDir |-> <<>>]

CloneIdle == input = <<>> /\ cloneInfo = NoCloneInfo

clipboardVars == <<rawClipboard, clipboardBranch>>

ClipboardIdle == rawClipboard = <<>> /\ clipboardBranch = <<>>

others == <<cookiesBrowserEnv, videoURL, command, commitVars, cloneVars, clipboardVars>>

\* The variables of the other commands while gitCheckout runs.
OthersIdle ==
    /\ cookiesBrowserEnv = <<>>
    /\ videoURL = <<>>
    /\ command = ""
    /\ CommitIdle
    /\ CloneIdle
    /\ ClipboardIdle

vars == <<args, configured, head, pc, branchInput, remotes, branchName, preferredRemote,
          branchCandidates, branchDerivedFromURL, remote, probeIdx, mode, calls, err, errArgs,
          others>>

\* The variables of gitCheckout.
checkoutVars == <<configured, head, branchInput, remotes, branchName, preferredRemote,
                  branchCandidates, branchDerivedFromURL, remote, probeIdx, mode>>

\* The variables of gitCheckout while another command runs.
CheckoutIdle ==
    /\ configured = <<>>
    /\ head = S_HEAD
    /\ branchInput = <<>>
    /\ remotes = <<>>
    /\ branchName = <<>>
    /\ preferredRemote = <<>>
    /\ branchCandidates = <<>>
    /\ branchDerivedFromURL = FALSE
    /\ remote = <<>>
    /\ probeIdx = 0
    /\ mode = ""

locals == <<branchInput, remotes, branchName, preferredRemote, branchCandidates,
            branchDerivedFromURL, remote, probeIdx, mode>>

Init ==
    /\ args \in {<<>>, <<S_origin, <<"a">>>>} \cup {<<i>> : i \in Inputs}
    /\ configured \in {l \in RemoteLists(MaxRemotes) : NoRepeat(l)}
    /\ head = S_HEAD
    /\ pc = "start"
    /\ branchInput = <<>>
    /\ remotes = <<>>
    /\ branchName = <<>>
    /\ preferredRemote = <<>>
    /\ branchCandidates = <<>>
    /\ branchDerivedFromURL = FALSE
    /\ remote = <<>>
    /\ probeIdx = 0
    /\ mode = ""
    /\ calls = <<>>
    /\ err = ""
    /\ errArgs = <<>>
    /\ OthersIdle

Call(op, a, b, res) == [op |-> op, a |-> a, b |-> b, res |-> res]

\* return e
Return(e) == pc' = "done" /\ err' = e /\ errArgs' = <<>>

\* return fmt.Errorf(format, ctx...): an error whose message names ctx.
ReturnWith(e, ctx) == pc' = "done" /\ err' = e /\ errArgs' = ctx

\* Variant of CheckArgs without the empty check on the trimmed argument.
CheckArgs_noEmptyCheck ==
    /\ pc = "start"
    /\ IF Len(args) # 1
       THEN Return("UsageError") /\ UNCHANGED branchInput
       ELSE /\ branchInput' = TrimSpace(args[1])
            /\ pc' = "ensureGitRepository"
            /\ UNCHANGED <<err, errArgs>>
    /\ UNCHANGED <<args, configured, head, remotes, branchName, preferredRemote,
                   branchCandidates, branchDerivedFromURL, remote, probeIdx, mode, calls>>
    /\ UNCHANGED others

\* ctx.NArgs() != 1, strings.TrimSpace(ctx.Arg(0)) and the empty check.
CheckArgs ==
    /\ pc = "start"
    /\ IF Len(args) # 1
       THEN Return("UsageError") /\ UNCHANGED branchInput
       ELSE /\ branchInput' = TrimSpace(args[1])
            /\ IF TrimSpace(args[1]) = <<>>
               THEN Return("EmptyBranchName")
               ELSE pc' = "ensureGitRepository" /\ UNCHANGED <<err, errArgs>>
    /\ UNCHANGED <<args, configured, head, remotes, branchName, preferredRemote,
                   branchCandidates, branchDerivedFromURL, remote, probeIdx, mode, calls>>
    /\ UNCHANGED others

\* ensureGitRepository: `git rev-parse --is-inside-work-tree`.
EnsureGitRepository ==
    /\ pc = "ensureGitRepository"
    /\ \E inside \in BOOLEAN :
           /\ calls' = Append(calls, Call("rev-parse", <<>>, <<>>, IF inside THEN "ok" ELSE "error"))
           /\ IF inside
              THEN pc' = "listGitRemotes" /\ UNCHANGED <<err, errArgs>>
              ELSE Return("NotGitRepository")
    /\ UNCHANGED <<args, configured, head, locals>>
    /\ UNCHANGED others

\* remotes, err := listGitRemotes()
ListGitRemotes ==
    /\ pc = "listGitRemotes"
    /\ \E ran \in BOOLEAN, r \in {listGitRemotes(gitRemoteStdout(configured, 1))} :
               /\ calls' = Append(calls, Call("remote", <<>>, <<>>, IF ran THEN "ok" ELSE "error"))
               /\ IF ~ran
                  THEN Return("GitRemoteFailed") /\ UNCHANGED remotes
                  ELSE IF r.err # "nil"
                  THEN Return(r.err) /\ UNCHANGED remotes
                  ELSE pc' = "classify" /\ remotes' = r.remotes /\ UNCHANGED <<err, errArgs>>
    /\ UNCHANGED <<args, configured, head, branchInput, branchName, preferredRemote,
                   branchCandidates, branchDerivedFromURL, remote, probeIdx, mode>>
    /\ UNCHANGED others

\* The classification of the input and the second empty check.  Indexing an
\* empty candidate list (branchCandidates[0]) is a run-time panic.
Classify ==
    /\ pc = "classify"
    /\ IF HasPrefix(branchInput, S_http) \/ HasPrefix(branchInput, S_https)
       THEN \E r \in {parseGitHubTreeURL(branchInput)} :
                IF r.err # "nil"
                THEN /\ Return(r.err)
                     /\ UNCHANGED <<branchName, preferredRemote, branchCandidates,
                                    branchDerivedFromURL>>
                ELSE IF r.candidates = <<>>
                THEN /\ Return("panic")
                     /\ UNCHANGED <<branchName, preferredRemote, branchCandidates,
                                    branchDerivedFromURL>>
                ELSE /\ branchCandidates' = r.candidates
                     /\ branchName' = r.candidates[1]
                     /\ branchDerivedFromURL' = TRUE
                     /\ UNCHANGED preferredRemote
                     /\ IF r.candidates[1] = <<>>
                        THEN Return("EmptyBranchName")
                        ELSE pc' = "selectGitRemote" /\ UNCHANGED <<err, errArgs>>
       ELSE \E d \in {directSpec(branchInput, remotes)} :
                /\ branchName' = d.branchName
                /\ preferredRemote' = d.preferredRemote
                /\ branchCandidates' = d.branchCandidates
                /\ UNCHANGED branchDerivedFromURL
                /\ IF d.branchName = <<>>
                   THEN Return("EmptyBranchName")
                   ELSE pc' = "selectGitRemote" /\ UNCHANGED <<err, errArgs>>
    /\ UNCHANGED <<args, configured, head, branchInput, remotes, remote, probeIdx, mode, calls>>
    /\ UNCHANGED others

\* remote, err := selectGitRemote(remotes, preferredRemote)
SelectGitRemote ==
    /\ pc = "selectGitRemote"
    /\ \E r \in {selectGitRemote(remotes, preferredRemote)} :
           IF r.err # "nil"
           THEN /\ ReturnWith(r.err, IF r.err = "RemoteNotFound" THEN <<preferredRemote>> ELSE <<>>)
                /\ UNCHANGED <<remote, probeIdx>>
           ELSE /\ remote' = r.remote
                /\ UNCHANGED <<err, errArgs>>
                /\ IF branchDerivedFromURL /\ Len(branchCandidates) > 0
                   THEN pc' = "probe" /\ probeIdx' = 1
                   ELSE pc' = "fetch" /\ UNCHANGED probeIdx
    /\ UNCHANGED <<args, configured, head, branchInput, remotes, branchName, preferredRemote,
                   branchCandidates, branchDerivedFromURL, mode, calls>>
    /\ UNCHANGED others

\* Variant of pickResult that ignores the probe answers.
pickResult_alwaysFirst(candidates, i, res) == candidates[1]

\* Variant of pickResult that falls back to the most specific candidate.
pickResult_fallbackLast(candidates, i, res) ==
    IF res = "present" THEN candidates[i] ELSE candidates[Len(candidates)]

\* The candidate pickBranchCandidateForRemote returns once the candidate at
\* index i was reported res.
pickResult(candidates, i, res) ==
    IF res = "present" THEN candidates[i] ELSE candidates[1]

\* Variant of Probe that goes on probing after a candidate was reported present.
Probe_noEarlyStop ==
    /\ pc = "probe"
    /\ probeIdx <= Len(branchCandidates)
    /\ \E res \in {"present", "absent", "error"} :
           /\ calls' = Append(calls, Call("ls-remote", remote, branchCandidates[probeIdx], res))
           /\ IF res = "error"
              THEN /\ ReturnWith("ProbeFailed", <<remote, branchCandidates[probeIdx]>>)
                   /\ UNCHANGED <<branchName, probeIdx>>
              ELSE IF probeIdx = Len(branchCandidates)
              THEN /\ branchName' = pickResult(branchCandidates, probeIdx, res)
                   /\ pc' = "fetch"
                   /\ UNCHANGED <<probeIdx, err, errArgs>>
              ELSE /\ probeIdx' = probeIdx + 1
                   /\ branchName' = IF res = "present" THEN branchCandidates[probeIdx] ELSE branchName
                   /\ UNCHANGED <<pc, err, errArgs>>
    /\ UNCHANGED <<args, configured, head, branchInput, remotes, preferredRemote,
                   branchCandidates, branchDerivedFromURL, remote, mode>>
    /\ UNCHANGED others

\* Variant of Probe that takes a failed probe for an absent branch.
Probe_errorIsAbsent ==
    /\ pc = "probe"
    /\ probeIdx <= Len(branchCandidates)
    /\ \E res \in {"present", "absent", "error"} :
           /\ calls' = Append(calls, Call("ls-remote", remote, branchCandidates[probeIdx], res))
           /\ IF res = "present" \/ probeIdx = Len(branchCandidates)
              THEN /\ branchName' = pickResult(branchCandidates, probeIdx, res)
                   /\ pc' = "fetch"
                   /\ UNCHANGED <<probeIdx, err, errArgs>>
              ELSE /\ probeIdx' = probeIdx + 1
                   /\ UNCHANGED <<pc, branchName, err, errArgs>>
    /\ UNCHANGED <<args, configured, head, branchInput, remotes, preferredRemote,
                   branchCandidates, branchDerivedFromURL, remote, mode>>
    /\ UNCHANGED others

\* One iteration of the loop of pickBranchCandidateForRemote: gitRemoteHasBranch
\* runs `git ls-remote --heads remote candidate`; the loop returns on an error,
\* on the first candidate reported present, and with candidates[0] after the last.
Probe ==
    /\ pc = "probe"
    /\ probeIdx <= Len(branchCandidates)
    /\ \E res \in {"present", "absent", "error"} :
           /\ calls' = Append(calls, Call("ls-remote", remote, branchCandidates[probeIdx], res))
           /\ IF res = "error"
              THEN /\ ReturnWith("ProbeFailed", <<remote, branchCandidates[probeIdx]>>)
                   /\ UNCHANGED <<branchName, probeIdx>>
              ELSE IF res = "present" \/ probeIdx = Len(branchCandidates)
              THEN /\ branchName' = pickResult(branchCandidates, probeIdx, res)
                   /\ pc' = "fetch"
                   /\ UNCHANGED <<probeIdx, err, errArgs>>
              ELSE /\ probeIdx' = probeIdx + 1
                   /\ UNCHANGED <<pc, branchName, err, errArgs>>
    /\ UNCHANGED <<args, configured, head, branchInput, remotes, preferredRemote,
                   branchCandidates, branchDerivedFromURL, remote, mode>>
    /\ UNCHANGED others

\* Variant of Fetch that goes on after a failed fetch.
Fetch_ignoresFailure ==
    /\ pc = "fetch"
    /\ \E ok \in BOOLEAN :
           /\ calls' = Append(calls, Call("fetch", remote, branchName, IF ok THEN "ok" ELSE "error"))
           /\ pc' = "localRef"
           /\ UNCHANGED <<err, errArgs>>
    /\ UNCHANGED <<args, configured, head, locals>>
    /\ UNCHANGED others

\* git fetch <remote> <branchName>
Fetch ==
    /\ pc = "fetch"
    /\ \E ok \in BOOLEAN :
           /\ calls' = Append(calls, Call("fetch", remote, branchName, IF ok THEN "ok" ELSE "error"))
           /\ IF ok THEN pc' = "localRef" /\ UNCHANGED <<err, errArgs>> ELSE ReturnWith("FetchFailed", <<remote, branchName>>)
    /\ UNCHANGED <<args, configured, head, locals>>
    /\ UNCHANGED others

\* Variant of LocalRef that consults the remote-tracking ref also when the
\* local ref exists.
LocalRef_alwaysChecksRemote ==
    /\ pc = "localRef"
    /\ \E res \in {"exists", "missing", "error"} :
           /\ calls' = Append(calls, Call("rev-parse-verify", branchName, <<>>, res))
           /\ IF res = "error"
              THEN ReturnWith("LocalRefCheckFailed", <<branchName>>) /\ UNCHANGED mode
              ELSE pc' = "remoteRef" /\ UNCHANGED <<mode, err, errArgs>>
    /\ UNCHANGED <<args, configured, head, branchInput, remotes, branchName, preferredRemote,
                   branchCandidates, branchDerivedFromURL, remote, probeIdx>>
    /\ UNCHANGED others

\* exists, err := gitRefExists(branchName)
LocalRef ==
    /\ pc = "localRef"
    /\ \E res \in {"exists", "missing", "error"} :
           /\ calls' = Append(calls, Call("rev-parse-verify", branchName, <<>>, res))
           /\ IF res = "error"
              THEN ReturnWith("LocalRefCheckFailed", <<branchName>>) /\ UNCHANGED mode
              ELSE IF res = "exists"
              THEN pc' = "checkout" /\ mode' = "switch-existing-local" /\ UNCHANGED <<err, errArgs>>
              ELSE pc' = "remoteRef" /\ UNCHANGED <<mode, err, errArgs>>
    /\ UNCHANGED <<args, configured, head, branchInput, remotes, branchName, preferredRemote,
                   branchCandidates, branchDerivedFromURL, remote, probeIdx>>
    /\ UNCHANGED others

\* fmt.Sprintf("%s/%s", remote, branchName)
remoteRef == remote \o <<"/">> \o branchName

\* Variant of RemoteRef that creates the branch also when the remote-tracking
\* ref is missing.
RemoteRef_createsAnyway ==
    /\ pc = "remoteRef"
    /\ \E res \in {"exists", "missing", "error"} :
           /\ calls' = Append(calls, Call("rev-parse-verify", remoteRef, <<>>, res))
           /\ IF res = "error"
              THEN ReturnWith("RemoteRefCheckFailed", <<remoteRef>>) /\ UNCHANGED mode
              ELSE pc' = "checkout" /\ mode' = "create-from-remote" /\ UNCHANGED <<err, errArgs>>
    /\ UNCHANGED <<args, configured, head, branchInput, remotes, branchName, preferredRemote,
                   branchCandidates, branchDerivedFromURL, remote, probeIdx>>
    /\ UNCHANGED others

\* remoteExists, err := gitRefExists(remoteRef)
RemoteRef ==
    /\ pc = "remoteRef"
    /\ \E res \in {"exists", "missing", "error"} :
           /\ calls' = Append(calls, Call("rev-parse-verify", remoteRef, <<>>, res))
           /\ IF res = "error"
              THEN ReturnWith("RemoteRefCheckFailed", <<remoteRef>>) /\ UNCHANGED mode
              ELSE IF res = "missing"
              THEN ReturnWith("BranchNotFound", <<remoteRef>>) /\ UNCHANGED mode
              ELSE pc' = "checkout" /\ mode' = "create-from-remote" /\ UNCHANGED <<err, errArgs>>
    /\ UNCHANGED <<args, configured, head, branchInput, remotes, branchName, preferredRemote,
                   branchCandidates, branchDerivedFromURL, remote, probeIdx>>
    /\ UNCHANGED others

\* git checkout <branchName>  /  git checkout -b <branchName> <remoteRef>
Checkout ==
    /\ pc = "checkout"
    /\ \E ok \in BOOLEAN :
           /\ calls' = Append(calls,
                  IF mode = "switch-existing-local"
                  THEN Call("checkout", branchName, <<>>, IF ok THEN "ok" ELSE "error")
                  ELSE Call("checkout-b", branchName, remoteRef, IF ok THEN "ok" ELSE "error"))
           /\ head' = IF ok THEN branchName ELSE head
           /\ Return(IF ok THEN "nil" ELSE "CheckoutFailed")
    /\ UNCHANGED <<args, configured, locals>>
    /\ UNCHANGED others
Next ==
    \/ CheckArgs
    \/ EnsureGitRepository
    \/ ListGitRemotes
    \/ Classify
    \/ SelectGitRemote
    \/ Probe
    \/ Fetch
    \/ LocalRef
    \/ RemoteRef
    \/ Checkout

Spec == Init /\ [][Next]_vars

----------------------------------------------------------------------------
(* Properties *)

IsProbe(c) == c.op = "ls-remote"

IsFetch(c) == c.op = "fetch"

\* The probes and the fetches of the run so far, in call order.
Probes == SelectSeq(calls, IsProbe)

Fetches == SelectSeq(calls, IsFetch)

\* The run is past pickBranchCandidateForRemote.
AfterProbing ==
    \/ pc \in {"fetch", "localRef", "remoteRef", "checkout"}
    \/ pc = "done" /\ Len(Fetches) > 0

S_a == <<"a">>

S_ab == <<"a", "/", "b">>

\* C1: for a GitHub tree URL, the candidates are probed on the chosen remote in
\* list order, one probe per candidate, and the branch handed to fetch is the
\* first candidate reported present, also when earlier candidates are absent.
C1_FirstExistingCandidateSelected ==
    (/\ branchDerivedFromURL
     /\ AfterProbing
     /\ \E i \in 1..Len(Probes) : Probes[i].res = "present")
    => \E k \in 1..Len(branchCandidates) :
           /\ branchName = branchCandidates[k]
           /\ Len(Probes) = k
           /\ \A j \in 1..k :
                  /\ Probes[j].a = remote
                  /\ Probes[j].b = branchCandidates[j]
                  /\ Probes[j].res = IF j = k THEN "present" ELSE "absent"
           /\ \A f \in 1..Len(Fetches) :
                  Fetches[f].a = remote /\ Fetches[f].b = branchCandidates[k]

\* C1 witness: candidates [a, a/b] on origin, a absent and a/b present.
C1_Witness ==
    /\ pc = "fetch"
    /\ branchDerivedFromURL
    /\ branchCandidates = <<S_a, S_ab>>
    /\ remote = S_origin
    /\ Len(Probes) = 2
    /\ Probes[1].res = "absent"
    /\ Probes[2].res = "present"
    /\ branchName = S_ab

\* Every candidate of the URL was probed and reported absent.
AllAbsent ==
    /\ branchDerivedFromURL
    /\ Len(Probes) > 0
    /\ Len(Probes) = Len(branchCandidates)
    /\ \A i \in 1..Len(Probes) : Probes[i].res = "absent"

\* C2: when every candidate of a GitHub tree URL is reported absent, the run
\* does not fail at the probing step: the first candidate of the list is the
\* branch, and it is the one handed to fetch.
C2_FallbackToFirstCandidate ==
    AllAbsent
    => /\ branchName = branchCandidates[1]
       /\ err \notin {"ProbeFailed", "NoCandidatesSupplied", "NoBranchCandidates"}
       /\ pc = "fetch" \/ Len(Fetches) = 1
       /\ \A f \in 1..Len(Fetches) :
              Fetches[f].a = remote /\ Fetches[f].b = branchCandidates[1]

\* C2 witness: two candidates, both absent, and the first one was fetched.
C2_Witness ==
    /\ AllAbsent
    /\ Len(branchCandidates) >= 2
    /\ Len(Fetches) = 1
    /\ Fetches[1].b = branchCandidates[1]
    /\ branchCandidates[1] # branchCandidates[Len(branchCandidates)]

----------------------------------------------------------------------------
(* Properties of parseGitHubTreeURL *)

\* parseGitHubTreeURL has just returned its candidates to runGitCheckout.
Parsed == branchDerivedFromURL /\ pc = "selectGitRemote"

NonEmpty(x) == x # <<>>

\* The path segments after tree/ of the URL given as input.
URLSegments ==
    LET parts == pathParts(ParseURL(branchInput))
    IN  SubSeq(parts, 4, Len(parts))

\* The raw key=value pairs of the query of the URL given as input.
QueryPairs == Split(ParseURL(branchInput).RawQuery, "&")

IsRefPair(pair) == Cut(pair, "=").before = S_ref

\* The query has no parameter named ref.
NoRefParam == \A i \in 1..Len(QueryPairs) : ~IsRefPair(QueryPairs[i])

\* The raw value of the first parameter named ref ("" if there is none).
RawRef ==
    LET refs == SelectSeq(QueryPairs, IsRefPair)
    IN  IF refs = <<>> THEN <<>> ELSE Cut(refs[1], "=").after

\* s1, s1/s2, ..., s1/.../sn, each percent-decoded.
PrefixCandidates(segs) ==
    [i \in 1..Len(segs) |-> UnescapeFrom(JoinFirst(segs, i, "/"), 1, FALSE)]

\* C3 as stated: without a ref parameter the candidates are exactly the decoded
\* prefixes s1, s1/s2, ..., s1/.../sn of the segments after tree/.
C3_AllPrefixesAreCandidates ==
    (Parsed /\ NoRefParam)
    => branchCandidates = PrefixCandidates(URLSegments)

\* C3 (amended): without a ref parameter the candidates are the decoded prefixes
\* s1, s1/s2, ..., s1/.../sn in increasing prefix length, except that an empty
\* prefix (an empty first segment, as in tree//x) yields no candidate.
C3_NonEmptyPrefixesAreCandidates ==
    (Parsed /\ NoRefParam)
    => branchCandidates = SelectSeq(PrefixCandidates(URLSegments), NonEmpty)

\* C3 witness: tree/a/b without a query gives [a, a/b].
C3_Witness ==
    /\ Parsed
    /\ NoRefParam
    /\ Len(URLSegments) = 2
    /\ branchCandidates = <<S_a, S_ab>>

\* C4: a non-empty ref parameter, decoded, is the first candidate, ahead of
\* every candidate derived from the path.
C4_RefOverrideFirst ==
    (Parsed /\ RawRef # <<>> /\ ~BadEscape(RawRef))
    => branchCandidates[1] = UnescapeFrom(RawRef, 1, TRUE)

\* The strings offered to addCandidate, in order, the empty ones left out.
Offered ==
    SelectSeq(refOffers(ParseURL(branchInput)) \o pathOffers(URLSegments, 1), NonEmpty)

FirstPos(seq, x) == CHOOSE i \in 1..Len(seq) : seq[i] = x /\ \A j \in 1..(i - 1) : seq[j] # x

\* C5: the candidate list has no two equal elements; it holds every offered
\* string once, at the relative position of its first occurrence.
C5_CandidatesDeduplicated ==
    Parsed
    => /\ \A i, j \in 1..Len(branchCandidates) :
              branchCandidates[i] = branchCandidates[j] => i = j
       /\ Range(branchCandidates) = Range(Offered)
       /\ \A i, j \in 1..Len(branchCandidates) :
              i < j => FirstPos(Offered, branchCandidates[i]) < FirstPos(Offered, branchCandidates[j])

\* C5 witness: tree/a/b?ref=a offers a, a, a/b and keeps [a, a/b].
C5_Witness ==
    /\ Parsed
    /\ Offered = <<S_a, S_a, S_ab>>
    /\ branchCandidates = <<S_a, S_ab>>

----------------------------------------------------------------------------
(* Properties of the direct specification and of the remote selection *)

IsURLInput == HasPrefix(branchInput, S_http) \/ HasPrefix(branchInput, S_https)

\* The input was classified (both branches of the classification leave a candidate).
PastClassify == branchCandidates # <<>>

FirstSlash == Index(branchInput, "/")

Prefix == SliceTo(branchInput, FirstSlash)

Remainder == SliceFrom(branchInput, FirstSlash + 1)

\* The remote chosen when none is pinned: origin, else the first listed.
DefaultRemote == IF S_origin \in Range(configured) THEN S_origin ELSE configured[1]

IsCheckout(c) == c.op \in {"checkout", "checkout-b"}

Checkouts == SelectSeq(calls, IsCheckout)

\* remote/branch with a configured remote and a non-empty branch.
PinCase ==
    /\ ~IsURLInput
    /\ FirstSlash > 0
    /\ Prefix \in Range(configured)
    /\ Remainder # <<>>

\* C6: for remote/branch with remote configured, that remote is the one used
\* for fetch and checkout and the branch is everything after the first "/".
C6_RemotePinnedByPrefix ==
    (PinCase /\ PastClassify)
    => /\ preferredRemote = Prefix
       /\ branchName = Remainder
       /\ branchCandidates = <<Remainder>>
       /\ remote # <<>> => remote = Prefix
       /\ Len(Probes) = 0
       /\ \A f \in 1..Len(Fetches) : Fetches[f].a = Prefix /\ Fetches[f].b = Remainder
       /\ \A k \in 1..Len(Checkouts) :
              /\ Checkouts[k].a = Remainder
              /\ Checkouts[k].op = "checkout-b" => Checkouts[k].b = Prefix \o <<"/">> \o Remainder

\* C6 witness: up/<branch with a slash> with origin and up configured ends
\* with that branch created from up.
C6_Witness ==
    /\ PinCase
    /\ pc = "done"
    /\ err = "nil"
    /\ mode = "create-from-remote"
    /\ S_origin \in Range(configured)
    /\ remote = S_up
    /\ "/" \in Range(branchName)
    /\ head = branchName

\* prefix/branch where prefix is no configured remote.
NotConfiguredCase ==
    /\ ~IsURLInput
    /\ FirstSlash > 0
    /\ Remainder # <<>>
    /\ Prefix \notin Range(configured)

\* C7 as stated: prefix/branch with prefix not configured fails with
\* RemoteNotFound and nothing is fetched or checked out.
C7_UnknownRemoteFails ==
    (NotConfiguredCase /\ PastClassify)
    => /\ Len(Fetches) = 0
       /\ Len(Checkouts) = 0
       /\ pc = "done" => err = "RemoteNotFound"

\* C7 (amended): prefix/branch with prefix not configured never fails with
\* RemoteNotFound: no remote is pinned, the whole input is the branch name and
\* the default remote (origin, else the first listed) is the one fetched from.
C7_UnknownPrefixIsBranchName ==
    (NotConfiguredCase /\ PastClassify)
    => /\ preferredRemote = <<>>
       /\ branchName = branchInput
       /\ err # "RemoteNotFound"
       /\ remote # <<>> => remote = DefaultRemote
       /\ \A f \in 1..Len(Fetches) :
              Fetches[f].a = DefaultRemote /\ Fetches[f].b = branchInput

\* C7 witness: up/<branch> with only origin configured is fetched from origin
\* under its whole name.
C7_Witness ==
    /\ NotConfiguredCase
    /\ Prefix = S_up
    /\ configured = <<S_origin>>
    /\ Len(Fetches) = 1
    /\ Fetches[1].a = S_origin
    /\ Fetches[1].b = branchInput

\* A direct input that pins no remote.
NoPinCase ==
    /\ ~IsURLInput
    /\ \/ FirstSlash < 0
       \/ FirstSlash = 0
       \/ Prefix \notin Range(configured)
       \/ Remainder = <<>>

\* C8: a direct input without "/", with an unconfigured prefix, with nothing
\* after the first "/" or starting with "/" has the whole trimmed input as its
\* single candidate and pins no remote.
C8_WholeInputIsCandidate ==
    (NoPinCase /\ PastClassify)
    => /\ branchCandidates = <<TrimSpace(args[1])>>
       /\ branchName = TrimSpace(args[1])
       /\ preferredRemote = <<>>
       /\ remote # <<>> => remote = DefaultRemote

\* C8 witness: "origin/" with origin configured is fetched as the branch origin/.
C8_Witness ==
    /\ NoPinCase
    /\ FirstSlash > 0
    /\ Prefix \in Range(configured)
    /\ Remainder = <<>>
    /\ Len(Fetches) = 1
    /\ Fetches[1].b = TrimSpace(args[1])

\* C9: with no remote pinned the selected remote is origin when origin is
\* configured, at whatever position, and the first listed remote otherwise.
C9_OriginElseFirstListed ==
    (preferredRemote = <<>> /\ remote # <<>>)
    => remote = IF \E i \in 1..Len(configured) : configured[i] = S_origin
                THEN S_origin
                ELSE configured[1]

\* C9 witness: origin listed second is selected ahead of the first listed.
C9_Witness ==
    /\ preferredRemote = <<>>
    /\ Len(configured) = 2
    /\ configured[2] = S_origin
    /\ remote = S_origin

IsListOK(c) == c.op = "remote" /\ c.res = "ok"

\* C10: with no remote configured every non-empty input fails with
\* NoRemotesConfigured once `git remote` has run, and nothing is probed,
\* fetched, verified or checked out.
C10_NoRemotesConfigured ==
    (configured = <<>> /\ Len(args) = 1 /\ TrimSpace(args[1]) # <<>>)
    => /\ \A i \in 1..Len(calls) : calls[i].op \in {"rev-parse", "remote"}
       /\ (pc = "done" /\ SelectSeq(calls, IsListOK) # <<>>) => err = "NoRemotesConfigured"
       /\ pc \notin {"classify", "selectGitRemote", "probe", "fetch", "localRef",
                     "remoteRef", "checkout"}

\* C10 witness: a URL of another host fails with NoRemotesConfigured.
C10_Witness ==
    /\ configured = <<>>
    /\ pc = "done"
    /\ err = "NoRemotesConfigured"
    /\ HasPrefix(branchInput, H_gitlab)

----------------------------------------------------------------------------
(* Properties of the input checks *)

\* The single argument is empty once trimmed.
EmptyInput == Len(args) = 1 /\ TrimSpace(args[1]) = <<>>

\* C11: an argument that is empty after trimming fails with EmptyBranchName
\* and no git command at all is run on that run: the run goes from the start
\* straight to its end.
C11_EmptyInputFailsBeforeAnyCall ==
    EmptyInput
    => /\ calls = <<>>
       /\ pc \in {"start", "done"}
       /\ pc = "done" => err = "EmptyBranchName"
       /\ head = S_HEAD

\* C11 witness: an argument made of blanks only has failed with EmptyBranchName.
C11_Witness ==
    /\ EmptyInput
    /\ args[1] # <<>>
    /\ pc = "done"
    /\ err = "EmptyBranchName"
    /\ calls = <<>>

\* github.com or www.github.com in any letter case: the letters compared
\* ignoring case, every other character literally.
IsGitHubHost(h) == EqualFold(h, S_github) \/ EqualFold(h, S_wwwgithub)

\* The git commands that precede the classification of the input.
OnlyRepositoryCalls(cs) == \A i \in 1..Len(cs) : cs[i].op \in {"rev-parse", "remote"}

\* C12 as stated: when the classification reaches a URL that parses and whose
\* host is neither github.com nor www.github.com in any letter case, the run
\* ends there with UnsupportedHost whatever the path and the query are, with
\* nothing probed, fetched or checked out; a GitHub host in any letter case
\* never fails with UnsupportedHost.  A finished run takes no further step.
\* Violated by the host g%C4%B0thub.com, which strings.ToLower turns into
\* github.com.
C12_ForeignHostFails ==
    [][/\ pc # "done"
       /\ (pc = "classify" /\ IsURLInput)
          => \A u \in {ParseURL(branchInput)} :
                 u.ok => IF IsGitHubHost(u.Host)
                         THEN err' # "UnsupportedHost"
                         ELSE /\ pc' = "done"
                              /\ err' = "UnsupportedHost"
                              /\ calls' = calls
                              /\ OnlyRepositoryCalls(calls')
                              /\ head' = head]_vars

\* The path of a URL as it is written in the input: what follows the authority,
\* up to the query or the fragment.
WrittenPath(raw) ==
    LET noFragment == Cut(raw, "#").before
        noQuery == Cut(noFragment, "?").before
        rest == SliceFrom(noQuery, Index(noQuery, ":") + 3)
    IN  IF "/" \in Range(rest) THEN SliceFrom(rest, Index(rest, "/")) ELSE <<>>

\* The segments of a path, its leading and trailing slashes left out.
Segments(path) == Split(Trim(path, {"/"}), "/")

\* At least four segments, the third being tree in any letter case.
TreeShaped(segs) == Len(segs) >= 4 /\ ToLower(segs[3]) = S_tree

\* C13: a URL on a GitHub host whose written path has at least four segments
\* with the third equal to tree in any letter case is accepted as a tree URL;
\* with any other path the run ends with UnsupportedPath.
C13_TreePathOrUnsupportedPath ==
    [][(pc = "classify" /\ IsURLInput)
       => \A u \in {ParseURL(branchInput)} :
              (u.ok /\ IsGitHubHost(u.Host))
              => IF TreeShaped(Segments(WrittenPath(branchInput)))
                 THEN /\ pc' = "selectGitRemote"
                      /\ branchDerivedFromURL'
                      /\ err' = ""
                 ELSE /\ pc' = "done"
                      /\ err' = "UnsupportedPath"]_vars

\* C13 witness: /o/r/tree/ with nothing after tree has failed with UnsupportedPath.
C13_Witness ==
    /\ pc = "done"
    /\ err = "UnsupportedPath"
    /\ branchInput = H_tree

----------------------------------------------------------------------------
(* Properties of the fetch and of the checkout *)

IsRefCheck(c) == c.op = "rev-parse-verify"

\* The gitRefExists calls of the run so far, in call order.
RefChecks == SelectSeq(calls, IsRefCheck)

\* C14: git fetch runs at most once in a run; when it fails the run ends at
\* once with FetchFailed naming the remote and the branch, the fetch is the
\* last command of the run, and no ref is checked and nothing is checked out.
C14_FetchOnceNoRetry ==
    /\ Len(Fetches) <= 1
    /\ (Len(Fetches) = 1 /\ Fetches[1].res = "error")
       => /\ pc = "done"
          /\ err = "FetchFailed"
          /\ errArgs = <<Fetches[1].a, Fetches[1].b>>
          /\ calls[Len(calls)] = Fetches[1]
          /\ Len(RefChecks) = 0
          /\ Len(Checkouts) = 0
          /\ head = S_HEAD

\* C14 witness: the fetch of a branch picked by probing failed and ended the run.
C14_Witness ==
    /\ pc = "done"
    /\ err = "FetchFailed"
    /\ Len(Probes) > 0
    /\ Len(Fetches) = 1
    /\ Fetches[1].res = "error"

\* The first gitRefExists call of the run, on the local name, reported res.
LocalRefIs(res) == Len(RefChecks) >= 1 /\ RefChecks[1].res = res

\* C15: when the local ref of the resolved name exists after the fetch, the
\* mode is switch-existing-local, the only checkout is the plain checkout of
\* that name, and the remote-tracking ref is never consulted.
C15_ExistingLocalRefIsSwitched ==
    LocalRefIs("exists")
    => /\ Len(Fetches) = 1 /\ Fetches[1].res = "ok"
       /\ RefChecks = <<Call("rev-parse-verify", branchName, <<>>, "exists")>>
       /\ mode = "switch-existing-local"
       /\ pc \in {"checkout", "done"}
       /\ \A k \in 1..Len(Checkouts) :
              Checkouts[k].op = "checkout" /\ Checkouts[k].a = branchName
       /\ (pc = "done" /\ err = "nil") => head = branchName

\* C15 witness: a branch with a slash picked from a URL was switched to with a
\* plain checkout.
C15_Witness ==
    /\ LocalRefIs("exists")
    /\ branchDerivedFromURL
    /\ branchName = S_ab
    /\ pc = "done"
    /\ err = "nil"
    /\ Len(Checkouts) = 1
    /\ head = S_ab

\* C16: when no local ref of the resolved name exists after the fetch, the ref
\* <remote>/<branch> is consulted: if it exists the only checkout is
\* checkout -b <branch> <remote>/<branch> (create-from-remote); if it is
\* missing the run ends with BranchNotFound naming that ref and nothing is
\* checked out.
C16_CreateFromRemoteOrBranchNotFound ==
    LocalRefIs("missing")
    => /\ Len(Fetches) = 1 /\ Fetches[1].res = "ok"
       /\ RefChecks[1].a = branchName
       /\ \/ pc = "remoteRef" /\ Len(RefChecks) = 1
          \/ /\ Len(RefChecks) = 2
             /\ RefChecks[2].a = remote \o <<"/">> \o branchName
             /\ RefChecks[2].res = "exists"
                => /\ mode = "create-from-remote"
                   /\ pc \in {"checkout", "done"}
                   /\ \A k \in 1..Len(Checkouts) :
                          /\ Checkouts[k].op = "checkout-b"
                          /\ Checkouts[k].a = branchName
                          /\ Checkouts[k].b = remote \o <<"/">> \o branchName
                   /\ (pc = "done" /\ err = "nil") => head = branchName
             /\ RefChecks[2].res = "missing"
                => /\ pc = "done"
                   /\ err = "BranchNotFound"
                   /\ errArgs = <<remote \o <<"/">> \o branchName>>
                   /\ Len(Checkouts) = 0
                   /\ head = S_HEAD
             /\ RefChecks[2].res = "error" => pc = "done" /\ Len(Checkouts) = 0

\* C16 witness: neither the local ref nor the remote-tracking ref exists and
\* the run has failed with BranchNotFound.
C16_Witness ==
    /\ LocalRefIs("missing")
    /\ Len(RefChecks) = 2
    /\ RefChecks[2].res = "missing"
    /\ pc = "done"
    /\ err = "BranchNotFound"

----------------------------------------------------------------------------
(* Properties of the probing loop *)

\* C17: the probes of a run follow the candidate list in order on the selected
\* remote, one per candidate and never more than there are candidates; only
\* the last probe issued may have reported present (or failed), so probing
\* stops at the first candidate reported present; a direct input is not probed.
C17_ProbesSequentialAndBounded ==
    /\ Len(Probes) <= Len(branchCandidates)
    /\ ~branchDerivedFromURL => Len(Probes) = 0
    /\ \A j \in 1..Len(Probes) :
           /\ Probes[j].a = remote
           /\ Probes[j].b = branchCandidates[j]
           /\ j < Len(Probes) => Probes[j].res = "absent"
    /\ pc = "probe" => probeIdx = Len(Probes) + 1
    /\ (Len(Probes) > 0 /\ Probes[Len(Probes)].res = "present") => pc # "probe"

\* C17 witness: of two candidates the first was reported present; the run is
\* over and the second was never probed.
C17_Witness ==
    /\ branchDerivedFromURL
    /\ Len(branchCandidates) = 2
    /\ Len(Probes) = 1
    /\ Probes[1].res = "present"
    /\ pc = "done"
    /\ err = "nil"

\* The last probe of the run failed.
ProbeErrored == Len(Probes) > 0 /\ Probes[Len(Probes)].res = "error"

\* C18: when a probe fails the run ends with an error that names the remote
\* and the candidate that was being probed; no later candidate is probed, no
\* branch is picked, and nothing is fetched, verified or checked out.
C18_ProbeErrorAborts ==
    ProbeErrored
    => /\ pc = "done"
       /\ err = "ProbeFailed"
       /\ errArgs = <<remote, branchCandidates[Len(Probes)]>>
       /\ calls[Len(calls)] = Probes[Len(Probes)]
       /\ Len(Fetches) = 0
       /\ Len(RefChecks) = 0
       /\ Len(Checkouts) = 0
       /\ head = S_HEAD

\* C18 witness: the probe of the first of two candidates failed; the second
\* was not probed and the first was not fetched.
C18_Witness ==
    /\ ProbeErrored
    /\ Len(branchCandidates) = 2
    /\ Len(Probes) = 1
    /\ pc = "done"
    /\ Len(Fetches) = 0

----------------------------------------------------------------------------
(* Properties of the candidate list of a URL *)

\* The run is past the classification of its input.
Classified ==
    \/ pc \in {"selectGitRemote", "probe", "fetch", "localRef", "remoteRef", "checkout"}
    \/ Len(calls) > 2

\* C19: a URL input whose resolution did not fail has a candidate list with at
\* least one element and no empty element, and the branch handed on is not
\* empty; a run on a URL input goes past the classification only with such a
\* list, and a NoBranchCandidates failure leaves no list behind.
C19_CandidatesNonEmpty ==
    /\ branchDerivedFromURL
       => /\ Len(branchCandidates) >= 1
          /\ \A i \in 1..Len(branchCandidates) : branchCandidates[i] # <<>>
          /\ branchName # <<>>
    /\ (IsURLInput /\ Classified) => branchDerivedFromURL
    /\ err = "NoBranchCandidates" => branchCandidates = <<>> /\ ~Classified

\* C19 witness: tree//a, whose first prefix is empty, was resolved to the
\* single candidate /a.
C19_Witness ==
    /\ branchDerivedFromURL
    /\ branchInput = H_tree \o <<"/", "a">>
    /\ branchCandidates = <<<<"/", "a">>>>
    /\ Classified

\* The authority of a URL as it is written in the input.
WrittenAuthority(raw) ==
    LET noFragment == Cut(raw, "#").before
        noQuery == Cut(noFragment, "?").before
        rest == SliceFrom(noQuery, Index(noQuery, ":") + 3)
    IN  Cut(rest, "/").before

\* The segments after tree/ of the path as written.
WrittenBranchSegments(raw) ==
    LET segs == Segments(WrittenPath(raw))
    IN  SubSeq(segs, 4, Len(segs))

\* A tree URL on github.com whose only defect is a segment after tree/ that
\* does not percent-decode.
UndecodableSegmentCase ==
    /\ IsURLInput
    /\ IsGitHubHost(WrittenAuthority(branchInput))
    /\ TreeShaped(Segments(WrittenPath(branchInput)))
    /\ ~BadEscape(Cut(branchInput, "#").after)
    /\ \E i \in 1..Len(WrittenBranchSegments(branchInput)) :
           BadEscape(WrittenBranchSegments(branchInput)[i])

\* C20 as stated: a segment after tree/ that does not percent-decode is skipped
\* and does not fail the resolution: the URL is not rejected as invalid, and
\* the first segment, when it decodes, is still a candidate.
C20_UndecodableSegmentSkipped ==
    [][(pc = "classify" /\ UndecodableSegmentCase)
       => /\ err' # "InvalidURL"
          /\ ~BadEscape(WrittenBranchSegments(branchInput)[1])
             => /\ pc' = "selectGitRemote"
                /\ UnescapeFrom(WrittenBranchSegments(branchInput)[1], 1, FALSE)
                       \in Range(branchCandidates')]_vars

----------------------------------------------------------------------------
(* Properties of the returned error *)

\* The nine error kinds of the resolver.
NineKinds ==
    {"InvalidURL", "UnsupportedHost", "UnsupportedPath", "NoBranchCandidates",
     "RemoteNotFound", "NoRemotesConfigured", "EmptyBranchName", "FetchFailed",
     "BranchNotFound"}

\* The errors runGitCheckout returns besides those: a wrong number of
\* arguments, a directory that is no git repository, and a git command (remote,
\* ls-remote, rev-parse --verify, checkout) that could not do its work.
OtherKinds ==
    {"UsageError", "NotGitRepository", "GitRemoteFailed", "ProbeFailed",
     "LocalRefCheckFailed", "RemoteRefCheckFailed", "CheckoutFailed"}

\* The run has ended with a failure.
Failed == pc = "done" /\ err # "nil"

\* C21 as stated, for the runs that were given one argument and ran a git
\* command: every failing run ends with one of the nine kinds.
C21_OnlyNineKinds == (Failed /\ calls # <<>>) => err \in NineKinds

\* C21 (amended): every failing run ends by returning an error, never by a
\* panic; the error is one of the nine kinds or one of the seven further kinds
\* (usage, no repository, a failed git remote, probe, ref check or checkout).
C21_ErrorKindsReturned ==
    /\ Failed => err \in NineKinds \cup OtherKinds
    /\ err # "panic"
    /\ pc = "done" <=> err # ""

\* C21 witness: a run that resolved its branch and found it has failed at the
\* checkout itself, an error outside the nine kinds, and has left the current
\* branch alone.
C21_Witness ==
    /\ Failed
    /\ err = "CheckoutFailed"
    /\ head = S_HEAD
    /\ branchDerivedFromURL

----------------------------------------------------------------------------
(* Properties of the query and of the fragment *)

\* The input without its fragment and without the query parameters other than ref.
WithoutExtras(raw) ==
    LET noFragment == Cut(raw, "#").before
        q == Cut(noFragment, "?")
        refs == SelectSeq(Split(q.after, "&"), IsRefPair)
    IN  IF refs = <<>> THEN q.before ELSE q.before \o <<"?">> \o Join(refs, "&")

\* C23 as stated: a URL that yields a candidate list once its fragment and
\* its query parameters other than ref are removed yields the same list with
\* them.
C23_ExtrasIgnored ==
    [][(pc = "classify" /\ IsURLInput)
       => \A r \in {parseGitHubTreeURL(WithoutExtras(branchInput))} :
              r.err = "nil"
              => pc' = "selectGitRemote" /\ branchCandidates' = r.candidates]_vars

----------------------------------------------------------------------------
(* url.ParseRequestURI *)

SchemeTailChars == Digits \cup {"+", "-", "."}

\* getScheme from index i on: [ok, scheme, rest]; no scheme gives scheme = "".
RECURSIVE GetSchemeFrom(_, _)
GetSchemeFrom(rawURL, i) ==
    IF i > Len(rawURL) THEN [ok |-> TRUE, scheme |-> <<>>, rest |-> rawURL]
    ELSE IF IsLetter(rawURL[i]) THEN GetSchemeFrom(rawURL, i + 1)
    ELSE IF rawURL[i] \in SchemeTailChars
         THEN IF i = 1 THEN [ok |-> TRUE, scheme |-> <<>>, rest |-> rawURL]
              ELSE GetSchemeFrom(rawURL, i + 1)
    ELSE IF rawURL[i] = ":"
         THEN IF i = 1 THEN [ok |-> FALSE, scheme |-> <<>>, rest |-> <<>>]
              ELSE [ok |-> TRUE, scheme |-> SubSeq(rawURL, 1, i - 1),
                    rest |-> SliceFrom(rawURL, i)]
    ELSE [ok |-> TRUE, scheme |-> <<>>, rest |-> rawURL]

\* The part of parse(rawURL, viaRequest = true) after the scheme: rest without
\* its query; TRUE when the URL is accepted.
RequestRestOK(scheme, rest) ==
    IF ~HasPrefix(rest, <<"/">>) THEN scheme # <<>>
    ELSE IF scheme # <<>> /\ HasPrefix(rest, <<"/", "/">>)
    THEN Bind(Cut(SliceFrom(rest, 2), "/"),
              LAMBDA a : /\ ParseAuthority(a.before).ok
                         /\ ~BadEscape(IF a.found THEN a.after ELSE <<>>))
    ELSE ~BadEscape(rest)

\* url.ParseRequestURI(rawURL) returns no error.
ParseRequestURIOK(rawURL) ==
    IF \E i \in 1..Len(rawURL) : IsCTL(rawURL[i]) THEN FALSE
    ELSE IF rawURL = <<>> THEN FALSE
    ELSE IF rawURL = <<"*">> THEN TRUE
    ELSE Bind(GetSchemeFrom(rawURL, 1),
              LAMBDA g : g.ok /\ RequestRestOK(g.scheme, Cut(g.rest, "?").before))

----------------------------------------------------------------------------
(* runYoutubeToSound *)

S_cookies == <<"-", "-", "c", "o", "o", "k", "i", "e", "s">>

S_cookiesFromBrowser == <<"-", "-", "c", "o", "o", "k", "i", "e", "s", "-", "f", "r", "o", "m", "-", "b", "r", "o", "w", "s", "e", "r">>

S_safari == <<"s", "a", "f", "a", "r", "i">>

S_none == <<"n", "o", "n", "e">>

\* os.UserHomeDir()
HomeDir == <<"/", "h">>

\* filepath.Join(homeDir, ".flow", "youtube-sound")
TargetDir == HomeDir \o <<"/", ".", "f", "l", "o", "w", "/", "y", "o", "u", "t", "u", "b", "e", "-", "s", "o", "u", "n", "d">>

\* filepath.Join(targetDir, "%(title)s.%(ext)s")
OutputTemplate == TargetDir \o <<"/", "%", "(", "t", "i", "t", "l", "e", ")", "s", ".", "%", "(", "e", "x", "t", ")", "s">>

\* The arguments yt-dlp is always given.
BaseArgs ==
    <<<<"-", "-", "e", "x", "t", "r", "a", "c", "t", "-", "a", "u", "d", "i", "o">>,
      <<"-", "-", "a", "u", "d", "i", "o", "-", "f", "o", "r", "m", "a", "t">>,
      <<"m", "p", "3">>,
      <<"-", "-", "a", "u", "d", "i", "o", "-", "q", "u", "a", "l", "i", "t", "y">>,
      <<"0">>,
      <<"-", "-", "n", "o", "-", "p", "l", "a", "y", "l", "i", "s", "t">>,
      <<"-", "o">>,
      OutputTemplate>>

\* The loop over ctx.Args()[1:]: the trimmed arguments, the blank ones left
\* out, from index i on.
RECURSIVE forwardedArgs(_, _)
forwardedArgs(ctxArgs, i) ==
    IF i > Len(ctxArgs) THEN <<>>
    ELSE Bind(TrimSpace(ctxArgs[i]),
              LAMBDA trimmed : (IF trimmed # <<>> THEN <<trimmed>> ELSE <<>>)
                               \o forwardedArgs(ctxArgs, i + 1))

\* Variant of containsCookiesArgument that only knows --cookies-from-browser.
containsCookiesArgument_fromBrowserOnly(arguments) ==
    \E i \in 1..Len(arguments) : HasPrefix(arguments[i], S_cookiesFromBrowser)

\* containsCookiesArgument(args)
containsCookiesArgument(arguments) ==
    \E i \in 1..Len(arguments) :
        HasPrefix(arguments[i], S_cookiesFromBrowser) \/ HasPrefix(arguments[i], S_cookies)

\* defaultBrowser: the trimmed environment value, safari when it is blank.
defaultBrowser(env) ==
    Bind(TrimSpace(env), LAMBDA trimmed : IF trimmed = <<>> THEN S_safari ELSE trimmed)

\* The arguments of yt-dlp for the command line ctxArgs, the environment value
\* env and the URL url.
ytdlpArgs(ctxArgs, env, url) ==
    Bind(BaseArgs \o (IF Len(ctxArgs) > 1 THEN forwardedArgs(ctxArgs, 2) ELSE <<>>),
         LAMBDA arguments :
             Bind(defaultBrowser(env),
                  LAMBDA browser :
                      (IF ~EqualFold(browser, S_none) /\ ~containsCookiesArgument(arguments)
                       THEN arguments \o <<S_cookiesFromBrowser, browser>>
                       ELSE arguments)
                      \o <<url>>))

\* Largest number of arguments forwarded to yt-dlp.
MaxExtraArgs == 2

S_videoURL == <<"h", "t", "t", "p", "s", ":", "/", "/", "y", ".", "t", "/", "v">>

\* URLs whose host is an IP literal: closed, with a port, with a zone, and
\* without the closing bracket.
S_literalURL == <<"h", "t", "t", "p", "s", ":", "/", "/", "[", ":", ":", "1", "]", "/", "v">>

S_portURL == <<"h", "t", "t", "p", "s", ":", "/", "/", "[", ":", ":", "1", "]", ":", "8", "0", "/", "v">>

S_zoneURL == <<"h", "t", "t", "p", "s", ":", "/", "/", "[", "f", "e", "8", "0", ":", ":", "1", "%", "2", "5", "e", "n", "0", "]", "/", "v">>

S_openURL == <<"h", "t", "t", "p", "s", ":", "/", "/", "[", ":", ":", "1", "/", "v">>

\* First arguments tried: a URL, the same with blanks around, nothing, a word
\* without scheme, a URL with a malformed escape, a leading colon, and the
\* URLs on IP literals.
VideoArgs ==
    {S_videoURL, <<" ">> \o S_videoURL \o <<" ">>, <<>>, <<"v">>,
     S_videoURL \o <<"%">>, <<":", "v">>,
     S_literalURL, S_portURL, S_zoneURL, S_openURL}

\* What osascript prints when it succeeds: nothing, a line end, the URL of
\* the front document and a line end, or a text that is no URL.
FrontmostOutputs ==
    {<<>>, <<"\n">>, S_videoURL \o <<"\n">>, S_literalURL \o <<"\n">>,
     S_openURL \o <<"\n">>, <<"m", "i", "s", "s", "i", "n", "g", " ", "v", "a", "l", "u", "e", "\n">>, <<"x", " ", "y">>}

\* Forwarded arguments tried.
ExtraArgs ==
    {<<"-", "x">>, <<" ">>, <<"-", "-", "c", "o", "o", "k", "i", "e", "s">>, <<" ", "-", "-", "c", "o", "o", "k", "i", "e", "s", "=", "c", ".", "t", "x", "t", " ">>,
     <<"-", "-", "c", "o", "o", "k", "i", "e", "s", "-", "f", "r", "o", "m", "-", "b", "r", "o", "w", "s", "e", "r">>, <<"-", "-", "c", "o", "o", "k", "i", "e">>, <<"-", "-", "C", "o", "o", "k", "i", "e", "s">>,
     <<"x", "-", "-", "c", "o", "o", "k", "i", "e", "s">>}

RECURSIVE ExtraLists(_)
ExtraLists(n) ==
    IF n = 0 THEN {<<>>}
    ELSE LET S == ExtraLists(n - 1)
         IN  S \cup {Append(l, x) : l \in S, x \in ExtraArgs}

\* Values of FLOW_YOUTUBE_COOKIES_BROWSER tried; the empty one stands for unset.
BrowserEnvs ==
    {<<>>, <<" ", " ">>, S_none, <<"N", "O", "N", "E">>, <<" ", "N", "o", "n", "e", " ">>, <<"f", "i", "r", "e", "f", "o", "x">>,
     <<" ", "f", "i", "r", "e", "f", "o", "x", " ">>, <<"n", "o", "n", "e", "x">>}

YtInit ==
    /\ args \in {<<>>} \cup {<<v>> \o l : v \in VideoArgs, l \in ExtraLists(MaxExtraArgs)}
    /\ cookiesBrowserEnv \in BrowserEnvs
    /\ videoURL = <<>>
    /\ pc = "yt:start"
    /\ calls = <<>>
    /\ err = ""
    /\ errArgs = <<>>
    /\ CheckoutIdle
    /\ command = "youtubeToSound"
    /\ CommitIdle
    /\ CloneIdle
    /\ ClipboardIdle

\* The URL: ctx.Arg(0) trimmed, or safariFrontmostURL (osascript fails, or
\* its trimmed output is the URL and an empty one is an error); then the
\* empty check and url.ParseRequestURI.
YtVideoURL ==
    /\ pc = "yt:start"
    /\ \E safari \in (IF Len(args) > 0 THEN {"unused"} ELSE {"error", "ok"}) :
           \E url \in (IF Len(args) > 0 THEN {TrimSpace(args[1])}
                       ELSE IF safari = "error" THEN {<<>>}
                       ELSE {TrimSpace(out) : out \in FrontmostOutputs}) :
               /\ calls' = IF Len(args) > 0 THEN calls
                           ELSE Append(calls, Call("osascript", <<>>, <<>>, safari))
               /\ IF Len(args) = 0 /\ (safari = "error" \/ url = <<>>)
                  THEN Return("SafariURLFailed") /\ UNCHANGED videoURL
                  ELSE /\ videoURL' = url
                       /\ IF url = <<>> THEN Return("EmptyURL")
                          ELSE IF ~ParseRequestURIOK(url) THEN ReturnWith("ValidateURLFailed", <<url>>)
                          ELSE pc' = "yt:tools" /\ UNCHANGED <<err, errArgs>>
    /\ UNCHANGED <<args, cookiesBrowserEnv, checkoutVars, command, commitVars, cloneVars, clipboardVars>>

\* exec.LookPath, os.UserHomeDir, os.MkdirAll
YtTools ==
    /\ pc = "yt:tools"
    /\ \E res \in {"ok", "DownloaderNotFound", "HomeDirFailed", "MkdirFailed"} :
           IF res = "ok" THEN pc' = "yt:run" /\ UNCHANGED <<err, errArgs>>
           ELSE Return(res)
    /\ UNCHANGED <<args, cookiesBrowserEnv, videoURL, calls, checkoutVars, command, commitVars, cloneVars, clipboardVars>>

\* The arguments are built and yt-dlp is run.
YtRun ==
    /\ pc = "yt:run"
    /\ \E ok \in BOOLEAN :
           /\ calls' = Append(calls, Call("yt-dlp", ytdlpArgs(args, cookiesBrowserEnv, videoURL),
                                          <<>>, IF ok THEN "ok" ELSE "error"))
           /\ Return(IF ok THEN "nil" ELSE "DownloaderFailed")
    /\ UNCHANGED <<args, cookiesBrowserEnv, videoURL, checkoutVars, command, commitVars, cloneVars, clipboardVars>>

YtNext == YtVideoURL \/ YtTools \/ YtRun

YtSpec == YtInit /\ [][YtNext]_vars

\* The yt-dlp runs of the process.
IsYtdlp(c) == c.op = "yt-dlp"

YtdlpRuns == SelectSeq(calls, IsYtdlp)

\* The arguments forwarded by the user: those after the URL, trimmed, the
\* blank ones left out.
Forwarded == SelectSeq([i \in 1..(Len(args) - 1) |-> TrimSpace(args[i + 1])], NonEmpty)

StartsWithCookies(arg) == HasPrefix(arg, S_cookies)

\* The arguments of the yt-dlp run between the forwarded ones and the URL.
AddedByTool(arguments) ==
    SubSeq(arguments, Len(BaseArgs) + Len(Forwarded) + 1, Len(arguments) - 1)

\* The browser named by the environment: the trimmed value, safari when blank.
EnvBrowser ==
    IF TrimSpace(cookiesBrowserEnv) = <<>> THEN S_safari ELSE TrimSpace(cookiesBrowserEnv)

\* C24: the arguments of yt-dlp are the fixed ones, the forwarded ones, then
\* exactly one pair --cookies-from-browser <browser> if and only if the
\* trimmed environment value is not none in any letter case and no forwarded
\* argument starts with --cookies, then the URL; <browser> is the trimmed
\* environment value, safari when it is unset or blank.
C24_CookiesFromBrowserAdded ==
    /\ Len(YtdlpRuns) <= 1
    /\ \A k \in 1..Len(YtdlpRuns) :
           /\ SubSeq(YtdlpRuns[k].a, 1, Len(BaseArgs) + Len(Forwarded)) = BaseArgs \o Forwarded
           /\ YtdlpRuns[k].a[Len(YtdlpRuns[k].a)] = videoURL
           /\ AddedByTool(YtdlpRuns[k].a) =
                  IF /\ ToLower(TrimSpace(cookiesBrowserEnv)) # S_none
                     /\ SelectSeq(Forwarded, StartsWithCookies) = <<>>
                  THEN <<S_cookiesFromBrowser, EnvBrowser>>
                  ELSE <<>>

\* C24 witness: with the environment set to firefox (blanks around) and the
\* arguments -x and --cookie forwarded, yt-dlp was given --cookies-from-browser
\* firefox.
C24_Witness ==
    /\ Len(YtdlpRuns) = 1
    /\ cookiesBrowserEnv = <<" ", "f", "i", "r", "e", "f", "o", "x", " ">>
    /\ Forwarded = <<<<"-", "x">>, <<"-", "-", "c", "o", "o", "k", "i", "e">>>>
    /\ AddedByTool(YtdlpRuns[1].a) = <<S_cookiesFromBrowser, <<"f", "i", "r", "e", "f", "o", "x">>>>

----------------------------------------------------------------------------
(* Properties of the order of the git commands of gitCheckout *)

\* The calls to the collaborators of the resolver: every git command but the
\* work-tree test of ensureGitRepository.
IsCollaborator(c) == c.op \in {"remote", "ls-remote", "fetch", "rev-parse-verify", "checkout", "checkout-b"}

Collaborators == SelectSeq(calls, IsCollaborator)

IsListRemotes(c) == c.op = "remote"

\* The place of a command in the protocol.
Stage(c) ==
    CASE c.op = "remote" -> 1
      [] c.op = "ls-remote" -> 2
      [] c.op = "fetch" -> 3
      [] c.op = "rev-parse-verify" -> 4
      [] OTHER -> 5

\* C25: the collaborators are called in the order git remote, probes, fetch,
\* ref checks, checkout: git remote is the first of them and runs once, probes
\* run only for a URL, there is at most one fetch, the first ref check is the
\* local one and at most one remote-tracking one follows, there is at most one
\* checkout and it comes after a fetch that succeeded; a run that failed
\* without a checkout left the current branch alone.
C25_CollaboratorsInOrder ==
    /\ \A i \in 1..Len(Collaborators) :
           /\ i = 1 => Collaborators[i].op = "remote"
           /\ i > 1 => Stage(Collaborators[i - 1]) <= Stage(Collaborators[i])
    /\ Len(SelectSeq(calls, IsListRemotes)) <= 1
    /\ pc \in {"classify", "selectGitRemote", "probe", "fetch", "localRef", "remoteRef", "checkout"}
       => Len(SelectSeq(calls, IsListRemotes)) = 1
    /\ Len(Probes) > 0 => IsURLInput
    /\ Len(Fetches) <= 1
    /\ Len(RefChecks) <= 2
    /\ Len(RefChecks) >= 1 => RefChecks[1].a = branchName
    /\ Len(RefChecks) = 2 => RefChecks[2].a = remote \o <<"/">> \o branchName
    /\ Len(Checkouts) <= 1
    /\ Len(Checkouts) = 1 => Len(Fetches) = 1 /\ Fetches[1].res = "ok"
    /\ (Failed /\ Len(Checkouts) = 0) => head = S_HEAD

\* C25 witness: a run on a URL that probed twice, fetched, checked the local
\* ref and the remote-tracking ref, and created the branch.
C25_Witness ==
    /\ pc = "done"
    /\ err = "nil"
    /\ Len(Probes) = 2
    /\ Len(RefChecks) = 2
    /\ Len(Checkouts) = 1
    /\ Len(Collaborators) = 7
    /\ head = branchName

----------------------------------------------------------------------------
(* Properties of the values reaching selectGitRemote and git fetch *)

InSeq(x, seq) == \E i \in 1..Len(seq) : seq[i] = x

\* C26: the preferred remote handed to selectGitRemote is empty or one of the
\* listed remotes, and the branch handed to git fetch is non-empty and one of
\* the candidates; so no run ends with RemoteNotFound, and a run that ends
\* with EmptyBranchName ended in the first check, before any git command.
C26_PreferredListedBranchNonEmpty ==
    /\ pc = "selectGitRemote" => preferredRemote = <<>> \/ InSeq(preferredRemote, remotes)
    /\ pc = "fetch" => branchName # <<>> /\ InSeq(branchName, branchCandidates)
    /\ \A k \in 1..Len(Fetches) :
           Fetches[k].b # <<>> /\ InSeq(Fetches[k].b, branchCandidates)
    /\ err # "RemoteNotFound"
    /\ err = "EmptyBranchName" => calls = <<>>

\* C26 witness: the input origin/a with origin listed second pinned origin,
\* and a was fetched from it.
C26_Witness ==
    /\ Len(Fetches) = 1
    /\ Len(remotes) = 2
    /\ preferredRemote = remotes[2]
    /\ preferredRemote # <<>>
    /\ branchInput = preferredRemote \o <<"/">> \o branchName
    /\ Fetches[1].a = preferredRemote
    /\ Fetches[1].b = branchName

----------------------------------------------------------------------------
(* commit, commitPush and commitReviewAndPush *)

\* strings.TrimRight(s, cutset)
TrimRight(s, cutset) ==
    IF \A i \in 1..Len(s) : s[i] \in cutset THEN <<>>
    ELSE SubSeq(s, 1,
                CHOOSE i \in 1..Len(s) : s[i] \notin cutset /\ \A j \in (i + 1)..Len(s) : s[j] \in cutset)

\* trimMatchingQuotes(message)
trimMatchingQuotes(message) ==
    IF /\ Len(message) >= 2
       /\ \/ message[1] = "\"" /\ message[Len(message)] = "\""
          \/ message[1] = "'" /\ message[Len(message)] = "'"
    THEN SubSeq(message, 2, Len(message) - 1)
    ELSE message

\* The loop of splitCommitMessageParagraphs from line i on; cur holds the
\* lines of the paragraph being collected.
RECURSIVE paragraphsFrom(_, _, _)
paragraphsFrom(lines, i, cur) ==
    IF i > Len(lines)
    THEN IF Len(cur) > 0 THEN <<Join(cur, "\n")>> ELSE <<>>
    ELSE IF TrimSpace(lines[i]) = <<>>
    THEN IF Len(cur) > 0
         THEN <<Join(cur, "\n")>> \o paragraphsFrom(lines, i + 1, <<>>)
         ELSE paragraphsFrom(lines, i + 1, <<>>)
    ELSE paragraphsFrom(lines, i + 1, Append(cur, TrimRight(lines[i], {" ", "\t"})))

\* splitCommitMessageParagraphs(message)
splitCommitMessageParagraphs(message) == paragraphsFrom(Split(message, "\n"), 1, <<>>)

\* The arguments of git commit after "commit": -m and a paragraph, for each
\* paragraph from index i on.
RECURSIVE commitArgs(_, _)
commitArgs(paragraphs, i) ==
    IF i > Len(paragraphs) THEN <<>>
    ELSE <<<<"-", "m">>, paragraphs[i]>> \o commitArgs(paragraphs, i + 1)

\* Answers of the model tried by generateCommitMessage.
GeneratedMessages ==
    {<<>>,
     <<" ">>,
     <<"\"", "\"">>,
     <<"\"", " ", "\"">>,
     <<"a">>,
     <<"\"", "a", "\"">>,
     <<"'", "a", " ", "b", "'">>,
     <<"a", "\n", "\n", "b">>,
     <<" ", "a", " ", "\n", "b", "\t">>,
     <<"\"", "a">>,
     <<"\n">>}

\* Contents the editor leaves in the message file.
EditedMessages ==
    {<<>>,
     <<"\n">>,
     <<" ", "\n">>,
     <<"a", "\n">>,
     <<"c", "\n">>,
     <<" ", "c", " ", "\n", "\n", " ", "d", "\n">>}

\* Keys readConfirmationChoice returns (it skips line ends).
Keys == {"y", "Y", "n", "N", "e", "E", "x", " "}

\* Outputs of git diff --cached.
Diffs == {<<>>, <<" ", "\n">>, <<"+", "x", "\n">>}

CmInit ==
    /\ command \in {"commit", "commitPush", "commitReviewAndPush"}
    /\ args \in {<<>>, <<<<"x">>>>}
    /\ pc = "cm:start"
    /\ calls = <<>>
    /\ err = ""
    /\ errArgs = <<>>
    /\ CommitIdle
    /\ CheckoutIdle
    /\ cookiesBrowserEnv = <<>>
    /\ videoURL = <<>>
    /\ CloneIdle
    /\ ClipboardIdle

CmIdle ==
    UNCHANGED <<args, command, checkoutVars, cookiesBrowserEnv, videoURL, cloneVars, clipboardVars>>

\* ctx.NArgs() != 0
CmArgs ==
    /\ pc = "cm:start"
    /\ IF Len(args) # 0 THEN Return("UsageError")
       ELSE pc' = "cm:ensureGitRepository" /\ UNCHANGED <<err, errArgs>>
    /\ UNCHANGED <<calls, commitVars>>
    /\ CmIdle

\* prepareCommit: ensureGitRepository()
CmEnsureGitRepository ==
    /\ pc = "cm:ensureGitRepository"
    /\ \E inside \in BOOLEAN :
           /\ calls' = Append(calls, Call("rev-parse", <<>>, <<>>, IF inside THEN "ok" ELSE "error"))
           /\ IF inside THEN pc' = "cm:add" /\ UNCHANGED <<err, errArgs>>
              ELSE Return("NotGitRepository")
    /\ UNCHANGED commitVars
    /\ CmIdle

\* prepareCommit: resolveOpenAIKey, then git add .
CmAdd ==
    /\ pc = "cm:add"
    /\ \E key \in BOOLEAN, ok \in BOOLEAN :
           IF ~key THEN Return("KeyNotSet") /\ UNCHANGED calls
           ELSE /\ calls' = Append(calls, Call("add", <<".">>, <<>>, IF ok THEN "ok" ELSE "error"))
                /\ IF ok THEN pc' = "cm:diff" /\ UNCHANGED <<err, errArgs>>
                   ELSE Return("GitAddFailed")
    /\ UNCHANGED commitVars
    /\ CmIdle

\* prepareCommit: git diff --cached and the test for staged changes.
CmDiff ==
    /\ pc = "cm:diff"
    /\ \E ok \in BOOLEAN, diff \in Diffs :
           /\ calls' = Append(calls, Call("diff", diff, <<>>, IF ok THEN "ok" ELSE "error"))
           /\ IF ~ok THEN Return("GitDiffFailed")
              ELSE IF TrimSpace(diff) = <<>> THEN Return("NoStagedChanges")
              ELSE pc' = "cm:generate" /\ UNCHANGED <<err, errArgs>>
    /\ UNCHANGED commitVars
    /\ CmIdle

\* prepareCommit: git status --short (its error is ignored),
\* generateCommitMessage, the cleaning of the message and its paragraphs.
CmGenerate ==
    /\ pc = "cm:generate"
    /\ \E statusOK \in BOOLEAN, ok \in BOOLEAN, raw \in GeneratedMessages :
           \E message \in {TrimSpace(trimMatchingQuotes(raw))} :
               /\ calls' = calls \o <<Call("status", <<>>, <<>>, IF statusOK THEN "ok" ELSE "error"),
                                      Call("generate", <<>>, <<>>, IF ok THEN "ok" ELSE "error")>>
               /\ IF ~ok
                  THEN Return("GenerateFailed") /\ UNCHANGED <<payloadMessage, payloadParagraphs, current>>
                  ELSE IF message = <<>>
                  THEN Return("EmptyMessage") /\ UNCHANGED <<payloadMessage, payloadParagraphs, current>>
                  ELSE IF splitCommitMessageParagraphs(message) = <<>>
                  THEN Return("EmptyAfterFormatting")
                       /\ UNCHANGED <<payloadMessage, payloadParagraphs, current>>
                  ELSE /\ payloadMessage' = message
                       /\ payloadParagraphs' = splitCommitMessageParagraphs(message)
                       /\ UNCHANGED <<err, errArgs>>
                       /\ IF command \in {"commit", "commitPush"}
                          THEN pc' = "cm:commit" /\ UNCHANGED current
                          ELSE pc' = "cm:prompt" /\ current' = message
    /\ UNCHANGED <<choice, edited>>
    /\ CmIdle

\* Variant of CmPrompt that commits on any key but n and e.
CmPrompt_anyKeyCommits ==
    /\ pc = "cm:prompt"
    /\ \E key \in Keys :
           /\ choice' = key
           /\ IF ToLowerChar(key) = "n"
              THEN Return("nil") /\ UNCHANGED <<payloadMessage, payloadParagraphs, current, edited>>
              ELSE IF ToLowerChar(key) = "e"
              THEN /\ UNCHANGED <<pc, err, errArgs, payloadMessage, payloadParagraphs, current, edited>>
              ELSE /\ pc' = "cm:commit"
                   /\ UNCHANGED <<err, errArgs, payloadMessage, payloadParagraphs, current, edited>>
    /\ UNCHANGED calls
    /\ CmIdle

\* One round of promptCommitConfirmation, and for the answer y the update of
\* the payload in runCommitReviewAndPush.
CmPrompt ==
    /\ pc = "cm:prompt"
    /\ \/ /\ Return("ReadChoiceFailed")
          /\ UNCHANGED commitVars
       \/ \E key \in Keys :
             /\ choice' = key
             /\ IF ToLowerChar(key) = "y"
                THEN /\ UNCHANGED <<current, edited>>
                     /\ IF current # payloadMessage
                        THEN \E trimmed \in {TrimSpace(current)} :
                                 IF trimmed = <<>>
                                 THEN Return("EmptyAfterEditing")
                                      /\ UNCHANGED <<payloadMessage, payloadParagraphs>>
                                 ELSE IF splitCommitMessageParagraphs(trimmed) = <<>>
                                 THEN Return("EmptyAfterFormatting")
                                      /\ UNCHANGED <<payloadMessage, payloadParagraphs>>
                                 ELSE /\ payloadMessage' = trimmed
                                      /\ payloadParagraphs' = splitCommitMessageParagraphs(trimmed)
                                      /\ pc' = "cm:commit"
                                      /\ UNCHANGED <<err, errArgs>>
                        ELSE /\ pc' = "cm:commit"
                             /\ UNCHANGED <<err, errArgs, payloadMessage, payloadParagraphs>>
                ELSE IF ToLowerChar(key) = "n"
                THEN /\ Return("nil")
                     /\ UNCHANGED <<payloadMessage, payloadParagraphs, current, edited>>
                ELSE IF ToLowerChar(key) = "e"
                THEN /\ UNCHANGED <<payloadMessage, payloadParagraphs>>
                     /\ \/ /\ Return("EditFailed")
                           /\ UNCHANGED <<current, edited>>
                        \/ \E content \in EditedMessages :
                              /\ edited' = content
                              /\ current' = IF TrimSpace(content) = <<>> THEN current
                                            ELSE TrimSpace(content)
                              /\ UNCHANGED <<pc, err, errArgs>>
                ELSE UNCHANGED <<pc, err, errArgs, payloadMessage, payloadParagraphs, current, edited>>
    /\ UNCHANGED calls
    /\ CmIdle

\* Variant of CmCommit that goes on to push when git commit failed.
CmCommit_pushesAnyway ==
    /\ pc = "cm:commit"
    /\ \E ok \in BOOLEAN :
           /\ calls' = Append(calls, Call("commit", commitArgs(payloadParagraphs, 1), <<>>,
                                          IF ok THEN "ok" ELSE "error"))
           /\ pc' = "cm:push" /\ UNCHANGED <<err, errArgs>>
    /\ UNCHANGED commitVars
    /\ CmIdle

\* commitWithPayload(ctx, payload); runCommit ends after it, runCommitPush and
\* runCommitReviewAndPush go on to git push.
CmCommit ==
    /\ pc = "cm:commit"
    /\ \E ok \in BOOLEAN :
           /\ calls' = Append(calls, Call("commit", commitArgs(payloadParagraphs, 1), <<>>,
                                          IF ok THEN "ok" ELSE "error"))
           /\ IF ~ok THEN Return("GitCommitFailed")
              ELSE IF command = "commit" THEN Return("nil")
              ELSE pc' = "cm:push" /\ UNCHANGED <<err, errArgs>>
    /\ UNCHANGED commitVars
    /\ CmIdle

\* git push
CmPush ==
    /\ pc = "cm:push"
    /\ \E ok \in BOOLEAN :
           /\ calls' = Append(calls, Call("push", <<>>, <<>>, IF ok THEN "ok" ELSE "error"))
           /\ Return(IF ok THEN "nil" ELSE "GitPushFailed")
    /\ UNCHANGED commitVars
    /\ CmIdle

CmNext ==
    \/ CmArgs
    \/ CmEnsureGitRepository
    \/ CmAdd
    \/ CmDiff
    \/ CmGenerate
    \/ CmPrompt
    \/ CmCommit
    \/ CmPush

CmSpec == CmInit /\ [][CmNext]_vars

----------------------------------------------------------------------------
(* Properties of the commit commands *)

IsCommit(c) == c.op = "commit"

IsPush(c) == c.op = "push"

Commits == SelectSeq(calls, IsCommit)

Pushes == SelectSeq(calls, IsPush)

Reviewing == command = "commitReviewAndPush"

\* What holds of every state of commitReviewAndPush: a commit or a push was
\* preceded by the answer y, the answer n ended the command without error and
\* without either, and the message under review is never blank.
ReviewState ==
    Reviewing
    => /\ (pc \in {"cm:commit", "cm:push"} \/ Commits # <<>> \/ Pushes # <<>>)
          => choice \in {"y", "Y"}
       /\ choice \in {"n", "N"}
          => pc = "done" /\ err = "nil" /\ Commits = <<>> /\ Pushes = <<>>
       /\ pc = "cm:prompt" => TrimSpace(current) # <<>>
       /\ \A k \in 1..Len(Commits) : Len(Commits[k].a) >= 2 /\ Commits[k].a[2] # <<>>

\* What holds of every round of the prompt: a key other than y, n and e asks
\* again with the same message; an edit that leaves only blanks keeps the
\* message, any other edit replaces it with the trimmed text.
ReviewStep ==
    (Reviewing /\ pc = "cm:prompt" /\ err' = "")
    => /\ ToLowerChar(choice') \notin {"y", "n", "e"}
          => pc' = "cm:prompt" /\ current' = current /\ calls' = calls
       /\ ToLowerChar(choice') = "e"
          => /\ pc' = "cm:prompt"
             /\ calls' = calls
             /\ current' = IF TrimSpace(edited') = <<>> THEN current ELSE TrimSpace(edited')

\* C27: in commitReviewAndPush git commit and git push run only after the
\* answer y or Y; the answer n or N ends the command with success and with
\* neither; any other key asks again; an edit that yields an empty or blank
\* message keeps the previous one, so the message under review is never empty.
C27_CommitOnlyAfterYes == []ReviewState /\ [][ReviewStep]_vars

\* C27 witness: the editor left a blank file, the message generated was kept,
\* and after the answer Y it was committed and pushed.
C27_Witness ==
    /\ Reviewing
    /\ pc = "done"
    /\ err = "nil"
    /\ choice = "Y"
    /\ edited = <<" ", "\n">>
    /\ current = payloadMessage
    /\ Len(Commits) = 1
    /\ Len(Pushes) = 1

IsAdd(c) == c.op = "add"

IsDiff(c) == c.op = "diff"

\* The position in calls of the first call that satisfies Test, 0 if none.
FirstCall(Test(_)) ==
    IF \E i \in 1..Len(calls) : Test(calls[i])
    THEN CHOOSE i \in 1..Len(calls) : Test(calls[i]) /\ \A j \in 1..(i - 1) : ~Test(calls[j])
    ELSE 0

\* C28: in commitPush and commitReviewAndPush git push runs at most once and
\* after a git commit that succeeded; git commit runs at most once, after git
\* add . succeeded, git diff --cached gave a non-blank diff and a non-empty
\* message of at least one paragraph was obtained, and it is given these
\* paragraphs; a step that failed is the last one of the run (the git status
\* query, whose failure only empties the status text, is not counted).
C28_PushAfterCommitAfterAdd ==
    command \in {"commitPush", "commitReviewAndPush"} =>
    /\ Len(Pushes) <= 1
    /\ Len(Commits) <= 1
    /\ Len(Pushes) = 1
       => /\ Len(Commits) = 1
          /\ Commits[1].res = "ok"
          /\ FirstCall(IsCommit) < FirstCall(IsPush)
    /\ Len(Commits) = 1
       => /\ \E i \in 1..(FirstCall(IsCommit) - 1) : IsAdd(calls[i]) /\ calls[i].res = "ok"
          /\ \E i \in 1..(FirstCall(IsCommit) - 1) :
                 IsDiff(calls[i]) /\ calls[i].res = "ok" /\ TrimSpace(calls[i].a) # <<>>
          /\ FirstCall(IsAdd) < FirstCall(IsDiff)
          /\ payloadMessage # <<>>
          /\ Len(payloadParagraphs) >= 1
          /\ \A k \in 1..Len(payloadParagraphs) : payloadParagraphs[k] # <<>>
          /\ Commits[1].a = commitArgs(payloadParagraphs, 1)
    /\ \A i \in 1..Len(calls) :
           (calls[i].res = "error" /\ calls[i].op # "status")
           => i = Len(calls) /\ pc = "done" /\ err \notin {"", "nil"}
    /\ err \notin {"", "nil"} => pc = "done"
    /\ err \in {"UsageError", "KeyNotSet", "NoStagedChanges", "EmptyMessage", "EmptyAfterFormatting",
                 "EmptyAfterEditing", "ReadChoiceFailed", "EditFailed"}
       => Commits = <<>> /\ Pushes = <<>>

\* C28 witness: commitPush committed a message of two paragraphs and pushed it.
C28_Witness ==
    /\ command = "commitPush"
    /\ pc = "done"
    /\ err = "nil"
    /\ Len(payloadParagraphs) = 2
    /\ Len(Commits) = 1
    /\ Len(Commits[1].a) = 4
    /\ Len(Pushes) = 1

----------------------------------------------------------------------------
(* clone and cloneAndOpen *)

HasSuffix(s, suffix) ==
    Len(s) >= Len(suffix) /\ SubSeq(s, Len(s) - Len(suffix) + 1, Len(s)) = suffix

\* strings.TrimPrefix(s, prefix)
TrimPrefix(s, prefix) == IF HasPrefix(s, prefix) THEN SliceFrom(s, Len(prefix)) ELSE s

\* strings.TrimSuffix(s, suffix)
TrimSuffix(s, suffix) == IF HasSuffix(s, suffix) THEN SliceTo(s, Len(s) - Len(suffix)) ELSE s

S_gitAt == <<"g", "i", "t", "@">>

S_gitAtGitHub == <<"g", "i", "t", "@", "g", "i", "t", "h", "u", "b", ".", "c", "o", "m", ":">>

S_dotGit == <<".", "g", "i", "t">>

S_httpsGitHub == <<"h", "t", "t", "p", "s", ":", "/", "/", "g", "i", "t", "h", "u", "b", ".", "c", "o", "m", "/">>

\* Variant of splitOwnerRepo that takes the first two of any number of parts.
splitOwnerRepo_firstTwo(path) ==
    Bind(Trim(path, {"/"}),
         LAMBDA trimmed :
             IF trimmed = <<>> THEN [err |-> "InvalidRepositoryPath", owner |-> <<>>, repo |-> <<>>]
             ELSE Bind(Split(trimmed, "/"),
                       LAMBDA parts :
                           IF Len(parts) < 2
                           THEN [err |-> "InvalidRepositoryPath", owner |-> <<>>, repo |-> <<>>]
                           ELSE IF parts[1] = <<>> \/ TrimSuffix(parts[2], S_dotGit) = <<>>
                           THEN [err |-> "InvalidRepositoryPath", owner |-> <<>>, repo |-> <<>>]
                           ELSE [err |-> "nil", owner |-> parts[1],
                                 repo |-> TrimSuffix(parts[2], S_dotGit)]))

\* splitOwnerRepo(path): [err, owner, repo]
splitOwnerRepo(path) ==
    Bind(Trim(path, {"/"}),
         LAMBDA trimmed :
             IF trimmed = <<>> THEN [err |-> "InvalidRepositoryPath", owner |-> <<>>, repo |-> <<>>]
             ELSE Bind(Split(trimmed, "/"),
                       LAMBDA parts :
                           IF Len(parts) < 2
                           THEN [err |-> "InvalidRepositoryPath", owner |-> <<>>, repo |-> <<>>]
                           ELSE IF Len(parts) > 2
                           THEN [err |-> "ExtraPathComponents", owner |-> <<>>, repo |-> <<>>]
                           ELSE IF parts[1] = <<>> \/ TrimSuffix(parts[2], S_dotGit) = <<>>
                           THEN [err |-> "InvalidRepositoryPath", owner |-> <<>>, repo |-> <<>>]
                           ELSE [err |-> "nil", owner |-> parts[1],
                                 repo |-> TrimSuffix(parts[2], S_dotGit)]))

CloneError(e) == [err |-> e, owner |-> <<>>, repo |-> <<>>, cloneURL |-> <<>>]

\* The result of parseGitHubCloneInfo once the path is split; url is the
\* clone URL of the git@ form, empty for the other forms.
cloneInfoOf(split, url) ==
    IF split.err # "nil" THEN CloneError(split.err)
    ELSE [err |-> "nil", owner |-> split.owner, repo |-> split.repo,
          cloneURL |-> IF url # <<>> THEN url
                       ELSE S_httpsGitHub \o split.owner \o <<"/">> \o split.repo]

\* parseGitHubCloneInfo(input): [err, owner, repo, cloneURL]
parseGitHubCloneInfo(in) ==
    IF HasPrefix(in, S_gitAt)
    THEN IF ~HasPrefix(in, S_gitAtGitHub) THEN CloneError("UnsupportedGitHost")
         ELSE cloneInfoOf(splitOwnerRepo(TrimPrefix(in, S_gitAtGitHub)), in)
    ELSE IF HasPrefix(in, S_http) \/ HasPrefix(in, S_https)
    THEN Bind(ParseURL(in),
              LAMBDA u : IF ~u.ok THEN CloneError("InvalidURL")
                         ELSE IF ~EqualFold(u.Host, S_github) THEN CloneError("UnsupportedHost")
                         ELSE cloneInfoOf(splitOwnerRepo(u.Path), <<>>))
    ELSE cloneInfoOf(splitOwnerRepo(in), <<>>)

\* filepath.Clean of the rooted path of the elements elems[1..n], as the
\* list of its elements: "." is dropped, ".." drops the element before it.
RECURSIVE CleanElems(_, _)
CleanElems(elems, n) ==
    IF n = 0 THEN <<>>
    ELSE Bind(CleanElems(elems, n - 1),
              LAMBDA before :
                  IF elems[n] = <<".">> THEN before
                  ELSE IF elems[n] = <<".", ".">>
                  THEN IF before = <<>> THEN <<>> ELSE SubSeq(before, 1, Len(before) - 1)
                  ELSE Append(before, elems[n]))

\* filepath.Join(homeDir, "gh", owner, repo)
targetDirOf(owner, repo) ==
    Bind(CleanElems(<<SliceFrom(HomeDir, 1), <<"g", "h">>, owner, repo>>, 4),
         LAMBDA elems : <<"/">> \o Join(elems, "/"))

\* Largest number of path parts of an input.
MaxParts == 3

ClonePrefixes ==
    {<<>>,
     <<"/">>,
     <<"g", "i", "t", "@", "g", "i", "t", "h", "u", "b", ".", "c", "o", "m", ":">>,
     <<"g", "i", "t", "@", "g", "i", "t", "l", "a", "b", ".", "c", "o", "m", ":">>,
     <<"h", "t", "t", "p", "s", ":", "/", "/", "g", "i", "t", "h", "u", "b", ".", "c", "o", "m", "/">>,
     <<"h", "t", "t", "p", "s", ":", "/", "/", "G", "i", "t", "H", "u", "b", ".", "c", "o", "m", "/">>,
     <<"h", "t", "t", "p", ":", "/", "/", "g", "i", "t", "h", "u", "b", ".", "c", "o", "m", "/">>,
     <<"h", "t", "t", "p", "s", ":", "/", "/", "g", "i", "t", "l", "a", "b", ".", "c", "o", "m", "/">>,
     <<"h", "t", "t", "p", "s", ":", "/", "/", "g", "i", "t", "h", "u", "b", ".", "c", "o", "m", ":", "4", "4", "3", "/">>,
     <<"h", "t", "t", "p", "s", ":", "/", "/", "[", ":", ":", "1", "]", "/">>,
     <<"h", "t", "t", "p", ":", "/", "/", "[", "f", "e", "8", "0", ":", ":", "1", "%", "2", "5", "e", "n", "0", "]", "/">>,
     <<"h", "t", "t", "p", "s", ":", "/", "/", "[", "g", "i", "t", "h", "u", "b", ".", "c", "o", "m", "/">>}

CloneParts ==
    {<<"o">>,
     <<"r", ".", "g", "i", "t">>,
     <<".", "g", "i", "t">>,
     <<>>,
     <<".", ".">>}

CloneSuffixes ==
    {<<>>,
     <<"/">>,
     <<"?", "x", "#", "y">>,
     <<"%", "2", "F", "x">>}

\* The paths of at most n parts.
RECURSIVE ClonePaths(_)
ClonePaths(n) ==
    IF n = 0 THEN {<<>>}
    ELSE LET S == ClonePaths(n - 1)
         IN  S \cup {IF l = <<>> THEN x ELSE l \o <<"/">> \o x : l \in S, x \in CloneParts}

\* The repository names tried.
CloneInputs == {p \o l \o x : p \in ClonePrefixes, l \in ClonePaths(MaxParts), x \in CloneSuffixes}

\* What osascript prints: nothing, or the URL of the front tab and a line end.
SafariOutputs == {<<>>, <<"\n">>} \cup {S_httpsGitHub \o l \o <<"\n">> : l \in ClonePaths(MaxParts)}

ClInit ==
    /\ command \in {"clone", "cloneAndOpen"}
    /\ args \in {<<>>, <<<<" ">>>>, <<<<"o">>, <<"r">>>>}
               \cup {<<in>> : in \in CloneInputs}
               \cup {<<<<" ">> \o in \o <<"\n">>>> : in \in ClonePaths(1)}
    /\ pc = "cl:start"
    /\ calls = <<>>
    /\ err = ""
    /\ errArgs = <<>>
    /\ CloneIdle
    /\ CommitIdle
    /\ CheckoutIdle
    /\ cookiesBrowserEnv = <<>>
    /\ videoURL = <<>>
    /\ ClipboardIdle

ClIdle ==
    UNCHANGED <<args, command, checkoutVars, cookiesBrowserEnv, videoURL, commitVars, clipboardVars>>

\* The argument checks of runClone and runCloneAndOpen, and activeSafariURL.
ClArgs ==
    /\ pc = "cl:start"
    /\ IF (command = "clone" /\ Len(args) # 1) \/ Len(args) > 1
       THEN Return("UsageError") /\ UNCHANGED <<input, calls>>
       ELSE IF Len(args) = 1
       THEN /\ input' = TrimSpace(args[1])
            /\ UNCHANGED calls
            /\ IF TrimSpace(args[1]) = <<>> THEN Return("EmptyURL")
               ELSE pc' = "cl:parse" /\ UNCHANGED <<err, errArgs>>
       ELSE \/ \* exec.LookPath("osascript") fails: nothing is run
               /\ Return("SafariURLFailed")
               /\ UNCHANGED <<input, calls>>
            \/ \* osascript fails
               /\ calls' = Append(calls, Call("osascript", <<>>, <<>>, "error"))
               /\ Return("SafariURLFailed")
               /\ UNCHANGED input
            \/ \* osascript prints the URL of the front document, or nothing
               \E safari \in {TrimSpace(out) : out \in SafariOutputs} :
                   /\ calls' = Append(calls, Call("osascript", <<>>, <<>>, "ok"))
                   /\ IF safari = <<>>
                      THEN Return("SafariURLFailed") /\ UNCHANGED input
                      ELSE /\ input' = safari
                           /\ pc' = "cl:parse"
                           /\ UNCHANGED <<err, errArgs>>
    /\ UNCHANGED cloneInfo
    /\ ClIdle

\* cloneRepository: parseGitHubCloneInfo, os.UserHomeDir, filepath.Join and
\* os.MkdirAll of the parent directory.
ClParse ==
    /\ pc = "cl:parse"
    /\ \E r \in {parseGitHubCloneInfo(input)}, dirs \in {"ok", "HomeDirFailed", "MkdirFailed"} :
           IF r.err # "nil" THEN Return(r.err) /\ UNCHANGED cloneInfo
           ELSE IF dirs # "ok" THEN Return(dirs) /\ UNCHANGED cloneInfo
           ELSE /\ cloneInfo' = [owner |-> r.owner, repo |-> r.repo, cloneURL |-> r.cloneURL,
                                 targetDir |-> targetDirOf(r.owner, r.repo)]
                /\ pc' = "cl:stat"
                /\ UNCHANGED <<err, errArgs>>
    /\ UNCHANGED <<input, calls>>
    /\ ClIdle

\* cloneRepository: os.Stat(targetDir)
ClStat ==
    /\ pc = "cl:stat"
    /\ \E res \in {"absent", "dir", "file", "error"} :
           /\ calls' = Append(calls, Call("stat", cloneInfo.targetDir, <<>>, res))
           /\ IF res = "absent" THEN pc' = "cl:clone" /\ UNCHANGED <<err, errArgs>>
              ELSE IF res = "dir" THEN ReturnWith("DestinationExists", <<cloneInfo.targetDir>>)
              ELSE IF res = "file" THEN ReturnWith("DestinationNotDirectory", <<cloneInfo.targetDir>>)
              ELSE ReturnWith("StatFailed", <<cloneInfo.targetDir>>)
    /\ UNCHANGED cloneVars
    /\ ClIdle

\* cloneRepository: git clone cloneURL targetDir
ClClone ==
    /\ pc = "cl:clone"
    /\ \E ok \in BOOLEAN :
           /\ calls' = Append(calls, Call("clone", cloneInfo.cloneURL, cloneInfo.targetDir,
                                          IF ok THEN "ok" ELSE "error"))
           /\ IF ~ok THEN Return("CloneFailed")
              ELSE IF command = "clone" THEN Return("nil")
              ELSE pc' = "cl:open" /\ UNCHANGED <<err, errArgs>>
    /\ UNCHANGED cloneVars
    /\ ClIdle

\* openInCursor(ctx, targetDir)
ClOpen ==
    /\ pc = "cl:open"
    /\ \E app \in BOOLEAN, ok \in BOOLEAN :
           IF ~app THEN Return("CursorNotFound") /\ UNCHANGED calls
           ELSE /\ calls' = Append(calls, Call("open", cloneInfo.targetDir, <<>>,
                                               IF ok THEN "ok" ELSE "error"))
                /\ Return(IF ok THEN "nil" ELSE "OpenFailed")
    /\ UNCHANGED cloneVars
    /\ ClIdle

ClNext == ClArgs \/ ClParse \/ ClStat \/ ClClone \/ ClOpen

ClSpec == ClInit /\ [][ClNext]_vars

----------------------------------------------------------------------------
(* Properties of clone and cloneAndOpen *)

IsClone(c) == c.op = "clone"

IsOpen(c) == c.op = "open"

IsStat(c) == c.op = "stat"

Clones == SelectSeq(calls, IsClone)

Opens == SelectSeq(calls, IsOpen)

Stats == SelectSeq(calls, IsStat)

\* The three forms of input: ssh, URL, owner/repo.
SshForm == HasPrefix(input, S_gitAtGitHub)

URLForm == HasPrefix(input, S_http) \/ HasPrefix(input, S_https)

PlainForm == ~HasPrefix(input, S_gitAt) /\ ~URLForm

\* The path the input names, without the slashes around it.
NamedPath ==
    Trim(IF SshForm THEN SliceFrom(input, Len(S_gitAtGitHub))
         ELSE IF URLForm THEN ParseURL(input).Path
         ELSE input, {"/"})

Slashes(s) == Cardinality({i \in 1..Len(s) : s[i] = "/"})

\* C29: git clone runs at most once, and only for an input of one of the
\* three forms (git@github.com:, an http(s) URL that parses with the host
\* github.com in any letter case, or a plain path) whose path is exactly
\* owner/repo, a trailing .git of repo stripped, both non-empty, after os.Stat
\* found nothing at ~/gh/owner/repo, which is where it clones to; a path of
\* more than two parts, and a destination that exists, end the command with
\* an error and without git clone; Cursor is opened only by cloneAndOpen and
\* only after git clone succeeded.
C29_CloneOnlyOwnerRepoAndFreshDestination ==
    /\ Len(Clones) <= 1
    /\ Len(Clones) = 1
       => /\ SshForm \/ PlainForm
             \/ (URLForm /\ ParseURL(input).ok /\ EqualFold(ParseURL(input).Host, S_github))
          /\ Slashes(NamedPath) = 1
          /\ cloneInfo.owner # <<>>
          /\ cloneInfo.repo # <<>>
          /\ NamedPath = cloneInfo.owner \o <<"/">> \o cloneInfo.repo
                          \o (IF HasSuffix(NamedPath, S_dotGit) THEN S_dotGit ELSE <<>>)
          /\ Clones[1].a = IF SshForm THEN input
                           ELSE S_httpsGitHub \o cloneInfo.owner \o <<"/">> \o cloneInfo.repo
          /\ Clones[1].b = targetDirOf(cloneInfo.owner, cloneInfo.repo)
          /\ Stats = <<Call("stat", Clones[1].b, <<>>, "absent")>>
    /\ (pc \in {"cl:stat", "cl:clone", "cl:open"} \/ Stats # <<>>) => Slashes(NamedPath) = 1
    /\ (Stats # <<>> /\ Stats[1].res # "absent")
       => pc = "done" /\ err \notin {"", "nil"} /\ Clones = <<>> /\ Opens = <<>>
    /\ (Stats # <<>> /\ Stats[1].res = "dir") => err = "DestinationExists"
    /\ (pc = "cl:open" \/ Opens # <<>>)
       => command = "cloneAndOpen" /\ Len(Clones) = 1 /\ Clones[1].res = "ok"
    /\ Len(Opens) <= 1
    /\ \A k \in 1..Len(Opens) : Opens[k].a = Clones[1].b

\* C29 witness: cloneAndOpen of https://GitHub.com/o/r.git?x#y cloned
\* https://github.com/o/r to ~/gh/o/r and opened it.
C29_Witness ==
    /\ command = "cloneAndOpen"
    /\ pc = "done"
    /\ err = "nil"
    /\ HasPrefix(input, <<"h", "t", "t", "p", "s", ":", "/", "/", "G">>)
    /\ NamedPath = <<"o", "/", "r", ".", "g", "i", "t">>
    /\ Len(Clones) = 1
    /\ Clones[1].a = S_httpsGitHub \o <<"o", "/", "r">>
    /\ Clones[1].b = HomeDir \o <<"/", "g", "h", "/", "o", "/", "r">>
    /\ Len(Opens) = 1

----------------------------------------------------------------------------
(* branchFromClipboard *)

QuoteChars == {"\"", "'"}

\* dropCR of bufio.ScanLines
dropCR(line) ==
    IF Len(line) > 0 /\ line[Len(line)] = "\r" THEN SliceTo(line, Len(line) - 1) ELSE line

\* bufio.MaxScanTokenSize, the size of the buffer of a bufio.Scanner: Scan
\* gives up on a line whose bytes before the line end fill the buffer.
MaxScanTokenSize == 65536

\* The loop of extractBranchName over the lines of the scanner from line i
\* on: [found, name].  The loop ends without a name at the end of the text
\* and at a line the scanner cannot hold (its error is not looked at).
RECURSIVE scanFrom(_, _)
scanFrom(lines, i) ==
    IF i > Len(lines) \/ Len(lines[i]) >= MaxScanTokenSize
    THEN [found |-> FALSE, name |-> <<>>]
    ELSE Bind(TrimSpace(dropCR(lines[i])),
              LAMBDA trimmed : IF trimmed # <<>>
                               THEN [found |-> TRUE, name |-> Trim(trimmed, QuoteChars)]
                               ELSE scanFrom(lines, i + 1))

\* extractBranchName(raw)
extractBranchName(raw) ==
    Bind(scanFrom(Split(raw, "\n"), 1),
         LAMBDA r : IF r.found THEN r.name ELSE Trim(TrimSpace(raw), QuoteChars))

\* containsDigit(s): unicode.IsDigit of some rune of s.
containsDigit(s) ==
    IF \A i \in 1..Len(s) : s[i] \in AsciiChars
    THEN \E i \in 1..Len(s) : s[i] \in Digits
    ELSE Bind(Runes(s), LAMBDA rs : \E i \in 1..Len(rs) : IsDigit(rs[i]))

\* The error of the four checks of the branch name, "nil" when it passes.
checkClipboardBranch(name) ==
    IF name = <<>> THEN "ClipboardEmpty"
    ELSE IF "/" \notin Range(name) THEN "MissingSlash"
    ELSE IF ~containsDigit(name) THEN "MissingNumber"
    ELSE IF \E i \in 1..Len(name) : name[i] \in {" ", "\t"} THEN "ContainsWhitespace"
    ELSE "nil"

\* Largest number of lines of the clipboard.
MaxLines == 2

ClipboardLines ==
    {<<>>,
     <<" ">>,
     <<"a", "/", "1">>,
     <<"\"", "a", "/", "1", "\"">>,
     <<" ", "'", "a", "/", "1", "'", " ", "\r">>,
     <<"a", "1">>,
     <<"a", "/", "b">>,
     <<"a", "/", " ", "1">>,
     <<"a", "/", "\t", "1">>,
     <<"\"", "\"">>,
     <<"\"", " ", "a", "/", "1", "\"">>,
     <<"'", "a", "/", "1">>,
     <<"a", "b">>,
     \* a/1 between two no-break spaces (U+00A0)
     <<Chr(194), Chr(160), "a", "/", "1", Chr(194), Chr(160)>>,
     \* a/ and the Arabic-Indic digit three (U+0663)
     <<"a", "/", Chr(217), Chr(163)>>}

\* The texts of at most n lines.
RECURSIVE ClipboardTexts(_)
ClipboardTexts(n) ==
    IF n = 0 THEN {<<>>}
    ELSE LET S == ClipboardTexts(n - 1)
         IN  S \cup ClipboardLines \cup {l \o <<"\n">> \o t : l \in ClipboardLines, t \in S}

\* A first line of n letters, then the line b/1.
LongLineText(n) == [i \in 1..n |-> "a"] \o <<"\n", "b", "/", "1">>

\* Texts whose first line fills the buffer of the scanner, or is one byte
\* short of it.
LongClipboardTexts == {LongLineText(MaxScanTokenSize - 1), LongLineText(MaxScanTokenSize)}

BcInit ==
    /\ command = "branchFromClipboard"
    /\ args \in {<<>>, <<<<"x">>>>}
    /\ pc = "bc:start"
    /\ calls = <<>>
    /\ err = ""
    /\ errArgs = <<>>
    /\ ClipboardIdle
    /\ CloneIdle
    /\ CommitIdle
    /\ CheckoutIdle
    /\ cookiesBrowserEnv = <<>>
    /\ videoURL = <<>>

BcIdle ==
    UNCHANGED <<args, command, configured, locals, cookiesBrowserEnv, videoURL, commitVars,
                cloneVars>>

\* ctx.NArgs() != 0
BcArgs ==
    /\ pc = "bc:start"
    /\ IF Len(args) # 0 THEN Return("UsageError")
       ELSE pc' = "bc:ensureGitRepository" /\ UNCHANGED <<err, errArgs>>
    /\ UNCHANGED <<calls, head, clipboardVars>>
    /\ BcIdle

\* ensureGitRepository()
BcEnsureGitRepository ==
    /\ pc = "bc:ensureGitRepository"
    /\ \E inside \in BOOLEAN :
           /\ calls' = Append(calls, Call("rev-parse", <<>>, <<>>, IF inside THEN "ok" ELSE "error"))
           /\ IF inside THEN pc' = "bc:readClipboard" /\ UNCHANGED <<err, errArgs>>
              ELSE Return("NotGitRepository")
    /\ UNCHANGED <<head, clipboardVars>>
    /\ BcIdle

\* readClipboardText()
BcReadClipboard ==
    /\ pc = "bc:readClipboard"
    /\ \/ /\ Return("ReadClipboardFailed")
          /\ UNCHANGED rawClipboard
       \/ /\ rawClipboard' \in ClipboardTexts(MaxLines) \cup LongClipboardTexts
          /\ pc' = "bc:extract"
          /\ UNCHANGED <<err, errArgs>>
    /\ UNCHANGED <<calls, head, clipboardBranch>>
    /\ BcIdle

\* extractBranchName and the four checks of the name.
BcExtract ==
    /\ pc = "bc:extract"
    /\ \E name \in {extractBranchName(rawClipboard)} :
           /\ clipboardBranch' = name
           /\ \E e \in {checkClipboardBranch(name)} :
                  IF e = "nil" THEN pc' = "bc:refExists" /\ UNCHANGED <<err, errArgs>>
                  ELSE IF e = "ClipboardEmpty" THEN Return(e)
                  ELSE ReturnWith(e, <<name>>)
    /\ UNCHANGED <<calls, head, rawClipboard>>
    /\ BcIdle

\* exists, err := gitRefExists(branchName)
BcRefExists ==
    /\ pc = "bc:refExists"
    /\ \E res \in {"exists", "missing", "error"} :
           /\ calls' = Append(calls, Call("rev-parse-verify", clipboardBranch, <<>>, res))
           /\ IF res = "error" THEN ReturnWith("LocalRefCheckFailed", <<clipboardBranch>>)
              ELSE pc' = "bc:checkout" /\ UNCHANGED <<err, errArgs>>
    /\ UNCHANGED <<head, clipboardVars>>
    /\ BcIdle

\* git checkout branchName when the ref exists, git checkout -b branchName
\* when it does not.
BcCheckout ==
    /\ pc = "bc:checkout"
    /\ \E ok \in BOOLEAN :
           /\ calls' = Append(calls,
                  Call(IF calls[Len(calls)].res = "exists" THEN "checkout" ELSE "checkout-b",
                       clipboardBranch, <<>>, IF ok THEN "ok" ELSE "error"))
           /\ head' = IF ok THEN clipboardBranch ELSE head
           /\ IF ok THEN Return("nil") ELSE ReturnWith("CheckoutFailed", <<clipboardBranch>>)
    /\ UNCHANGED clipboardVars
    /\ BcIdle

BcNext ==
    \/ BcArgs
    \/ BcEnsureGitRepository
    \/ BcReadClipboard
    \/ BcExtract
    \/ BcRefExists
    \/ BcCheckout

BcSpec == BcInit /\ [][BcNext]_vars

----------------------------------------------------------------------------
(* Properties of branchFromClipboard *)

NonBlankLine(line) == TrimSpace(line) # <<>>

\* The first non-blank line of the clipboard, trimmed and without the quote
\* characters around it; empty when every line is blank.
FirstLineName ==
    Bind(Split(rawClipboard, "\n"),
         LAMBDA lines :
             IF \E i \in 1..Len(lines) : NonBlankLine(lines[i])
             THEN Trim(TrimSpace(lines[
                           CHOOSE i \in 1..Len(lines) :
                               /\ NonBlankLine(lines[i])
                               /\ \A j \in 1..(i - 1) : ~NonBlankLine(lines[j])]),
                       QuoteChars)
             ELSE <<>>)

HasSlash(name) == \E i \in 1..Len(name) : name[i] = "/"

HasDigit(name) == containsDigit(name)

HasBlank(name) == \E i \in 1..Len(name) : name[i] \in {" ", "\t"}

\* The clipboard was read and its name checked.
Extracted ==
    \/ pc \in {"bc:refExists", "bc:checkout"}
    \/ /\ pc = "done"
       /\ \/ RefChecks # <<>>
          \/ err \in {"ClipboardEmpty", "MissingSlash", "MissingNumber", "ContainsWhitespace"}

\* C30 as stated: a git checkout runs only when the first non-blank line of
\* the clipboard, trimmed and without the quotes around it, is non-empty, has
\* a slash, has a digit and has no space or tab; the first of these checks
\* that fails, in this order, gives the error of the run, and then no git
\* command follows the work-tree test; when all pass and the ref exists the
\* one checkout is git checkout of the name, and when it is missing it is git
\* checkout -b of the name.  Violated by a clipboard whose first line has
\* MaxScanTokenSize bytes: the name is then the whole clipboard.
C30_ClipboardBranchChecked ==
    \A name \in {FirstLineName} :
        /\ Extracted
           => /\ clipboardBranch = name
              /\ err = "ClipboardEmpty" <=> name = <<>>
              /\ err = "MissingSlash" <=> (name # <<>> /\ ~HasSlash(name))
              /\ err = "MissingNumber" <=> (name # <<>> /\ HasSlash(name) /\ ~HasDigit(name))
              /\ err = "ContainsWhitespace"
                 <=> (name # <<>> /\ HasSlash(name) /\ HasDigit(name) /\ HasBlank(name))
        /\ err \in {"ClipboardEmpty", "MissingSlash", "MissingNumber", "ContainsWhitespace"}
           => Len(calls) = 1 /\ head = S_HEAD
        /\ errArgs # <<>> => errArgs = <<name>>
        /\ Len(Checkouts) <= 1
        /\ Len(Checkouts) = 1
           => /\ name # <<>> /\ HasSlash(name) /\ HasDigit(name) /\ ~HasBlank(name)
              /\ Checkouts[1].a = name
              /\ Len(RefChecks) = 1
              /\ RefChecks[1].a = name
              /\ RefChecks[1].res = "exists" => Checkouts[1].op = "checkout"
              /\ RefChecks[1].res = "missing" => Checkouts[1].op = "checkout-b"
        /\ (pc = "bc:checkout" \/ Checkouts # <<>>)
           => Len(RefChecks) = 1 /\ RefChecks[1].res # "error"
        /\ (pc = "done" /\ RefChecks # <<>> /\ RefChecks[1].res # "error") => Len(Checkouts) = 1

====
